---- MODULE Spec2Model ----
(***************************************************************************)
(* Model of the dependency-resolution core of antidote:                    *)
(*   - IndirectProvider and ImplementationDependency                       *)
(*     (src/src/antidote/_providers/indirect.py),                          *)
(*   - InjectedWrapper and _inject_kwargs                                  *)
(*     (src/src/antidote/_internal/wrapper.py),                            *)
(*   - tree_debug_info (src/src/antidote/_internal/utils/debug.py).        *)
(* Four specifications share the variables: Spec (the provider),           *)
(* SpecFreeze (the provider of a container that gets frozen), SpecWrapper  *)
(* (the injection wrapper) and SpecDebug (the debug tree).                 *)
(***************************************************************************)
EXTENDS Integers, Sequences, FiniteSets, TLC

VARIABLES
    providers,   \* provider id -> the fields of an IndirectProvider object
    heapSet,     \* reference -> a Set[ImplementationDependency] object
    heapDict,    \* reference -> a Dict[Hashable, Hashable] object
    choice,      \* resolver function -> what it returns when invoked now
    last,        \* the last provider operation: its name, its provider, its outcome
                 \*   and how many times it invoked a resolver
    returnedOn,  \* provider id -> permanent identifiers for which maybe_provide got a
                 \*   target from the resolver
    invokedOn,   \* provider id -> permanent identifiers for which maybe_provide invoked
                 \*   the resolver
    wcall,       \* the injected-wrapper call in progress
    dbg,         \* the tree_debug_info run in progress
    vcall,       \* the validated_scope call: its arguments and what it returned
    cache        \* the container's scope cache

provVars == <<providers, heapSet, heapDict, choice, last, returnedOn, invokedOn>>
vars ==
    <<providers, heapSet, heapDict, choice, last, returnedOn, invokedOn, wcall, dbg,
      vcall, cache>>

\* The IndirectProvider objects: the one constructed first and the clone made of it.
\* Each also names the reference of the set and of the dict it allocates.
ProviderIds == {"provider", "clone"}

(***************************************************************************)
(* Identifiers                                                             *)
(***************************************************************************)
Interfaces == {"Interface"}
\* Resolver functions given to register_implementation.
Resolvers == {"choose"}
\* Identifiers the container can be asked for; "C" is claimed by no provider.
Targets == {"A", "B", "C"}
\* Keys of implicit tables that are not implementation identifiers.
PlainKeys == {"Interface"}

NoScope == "None"
\* Python's None where it is not a scope.
None == "None"
SingletonScope == "singleton"

\* A plain hashable identifier (a class, a string).
PlainId(name) ==
    [kind |-> "plain", interface |-> name, implementation |-> "-", permanent |-> FALSE]

\* ImplementationDependency.__init__
ImplementationDependency(interface, implementation, permanent) ==
    [kind |-> "impl", interface |-> interface, implementation |-> implementation,
     permanent |-> permanent]

ImplObjects ==
    {ImplementationDependency(i, r, b) : i \in Interfaces, r \in Resolvers, b \in BOOLEAN}

Identifiers == ImplObjects \cup {PlainId(n) : n \in PlainKeys \cup Targets}

\* ImplementationDependency.__hash__: hash((interface, implementation))
Hash(d) == <<d.interface, d.implementation>>

\* Mutant of Equal: the permanent flag takes part in the comparison.
EqualWithPermanent(a, b) == a = b

\* ImplementationDependency.__eq__; other objects compare by identity/value.
Equal(a, b) ==
    IF a.kind = "impl"
    THEN /\ b.kind = "impl"
         /\ Hash(a) = Hash(b)
         /\ a.interface = b.interface
         /\ a.implementation = b.implementation
    ELSE a = b

\* `d in s` for a Python set.
SetContains(s, d) == \E e \in s : Equal(e, d)

\* s.add(d): a set keeps the element it already holds.
SetAdd(s, d) == IF SetContains(s, d) THEN s ELSE s \cup {d}

\* Python dict operations; a dict is a set of entries [k, v] with pairwise unequal keys.
DictHas(dict, d) == \E e \in dict : Equal(e.k, d)

DictGet(dict, d) == (CHOOSE e \in dict : Equal(e.k, d)).v

\* dict[d] = v keeps the key object already stored.
DictSet(dict, d, v) ==
    IF DictHas(dict, d)
    THEN {IF Equal(e.k, d) THEN [k |-> e.k, v |-> v] ELSE e : e \in dict}
    ELSE dict \cup {[k |-> d, v |-> v]}

\* dict.update(table)
DictUpdate(dict, table) ==
    {IF DictHas(table, e.k) THEN [k |-> e.k, v |-> DictGet(table, e.k)] ELSE e : e \in dict}
        \cup {t \in table : ~DictHas(dict, t.k)}

(***************************************************************************)
(* The container the provider recurses into.  Targets are owned by another *)
(* provider: "A" is a singleton service, "B" a service without scope and   *)
(* "C" is unknown, so that container.provide raises                        *)
(* DependencyNotFoundError for it.                                         *)
(***************************************************************************)
ServiceScope(target) ==
    CASE target = "A" -> SingletonScope
      [] target = "B" -> NoScope
      [] OTHER -> "missing"

\* container.provide(target)
ContainerProvide(target) ==
    IF ServiceScope(target) = "missing"
    THEN [found |-> FALSE, unwrapped |-> "-", scope |-> NoScope]
    ELSE [found |-> TRUE, unwrapped |-> target, scope |-> ServiceScope(target)]

(***************************************************************************)
(* validated_scope (specification SpecScope)                               *)
(***************************************************************************)
\* Scope.sentinel(): the neutral value of a scope argument.
SentinelScope == "sentinel"

\* A scope made with world.scopes.new (dummy_scope in the tests).
DummyScope == "dummy"

\* The values given as scope and as default: the three kinds of Scope object,
\* None, and an object that is no Scope.
ScopeArguments == {SentinelScope, SingletonScope, DummyScope, NoScope, "object"}

\* The values given as singleton.
SingletonArguments == {"True", "False", None, "object"}

\* isinstance(x, Scope)
IsScope(x) == x \in {SentinelScope, SingletonScope, DummyScope}

\* isinstance(singleton, bool)
IsBool(singleton) == singleton \in {"True", "False"}

\* Mutant of IsSentinel: None is taken for a neutral scope as well.
IsSentinelOrNone(scope) == scope \in {SentinelScope, NoScope}

\* `scope is Scope.sentinel()`
IsSentinel(scope) == scope = SentinelScope

Returned(value) == [raised |-> "none", value |-> value]

Raised(error) == [raised |-> error, value |-> "-"]

\* validated_scope(scope, singleton, default=default)
ValidatedScope(scope, singleton, default) ==
    IF ~(scope = NoScope \/ IsScope(scope)) THEN Raised("TypeError")
    ELSE IF ~(default = NoScope \/ IsScope(default)) THEN Raised("TypeError")
    ELSE IF IsBool(singleton)
    THEN IF ~IsSentinel(scope) THEN Raised("TypeError")
         ELSE Returned(IF singleton = "True" THEN SingletonScope ELSE NoScope)
    ELSE IF singleton # None THEN Raised("TypeError")
    ELSE Returned(IF IsSentinel(scope) THEN default ELSE scope)

\* No call of validated_scope.
IdleScopeCall == [pc |-> "idle"]

\* The arguments a caller gives.
ScopeCallArguments(scope, singleton, default) ==
    [pc |-> "call", scope |-> scope, singleton |-> singleton, default |-> default,
     result |-> Raised("-")]

ValidatedScopeCall ==
    /\ vcall.pc = "call"
    /\ vcall' = [vcall EXCEPT !.pc = "done",
                    !.result = ValidatedScope(vcall.scope, vcall.singleton, vcall.default)]
    /\ UNCHANGED <<provVars, wcall, dbg, cache>>

ValidatedScopeReturn ==
    /\ vcall.pc = "done"
    /\ vcall' = IdleScopeCall
    /\ UNCHANGED <<provVars, wcall, dbg, cache>>

(***************************************************************************)
(* The scope cache of the container (specification SpecCache).  A scope has *)
(* a generation; a value is cached with the generation its scope had, and  *)
(* reset(scope) increments the generation, so that the values cached       *)
(* before are treated as absent at the next lookup.                        *)
(***************************************************************************)
\* Number of resets of one scope, and of instances the providers build.
MaxResets == 2
MaxInstances == 6

RequestScope == "request"
SessionScope == "session"

CacheScopes == {SingletonScope, RequestScope, SessionScope}

\* The dependencies resolved, and the scope their provider returns the value
\* with: the singleton scope, a named scope each, or None.
CacheDependencies == {"service", "request_scoped", "session_scoped", "transient"}

DependencyScope(d) ==
    CASE d = "service" -> SingletonScope
      [] d = "request_scoped" -> RequestScope
      [] d = "session_scoped" -> SessionScope
      [] OTHER -> NoScope

\* No instance: instances are numbered from 1 in the order they are built.
NoInstance == 0

NoEntry == [instance |-> NoInstance, generation |-> 0]

\* `returned` keeps the instance the last provide of a dependency returned, and
\* `stale` whether the scope of the dependency was reset since.
IdleCache ==
    [generation |-> [s \in CacheScopes |-> 0],
     entries |-> [d \in CacheDependencies |-> NoEntry],
     made |-> 0,
     returned |-> [d \in CacheDependencies |-> NoInstance],
     stale |-> [d \in CacheDependencies |-> FALSE],
     op |-> "none", error |-> "none"]

\* Mutant of Generation: the scopes share one generation.
GenerationOfAll(c, scope) ==
    c.generation[SingletonScope] + c.generation[RequestScope] + c.generation[SessionScope]

\* The generation of a scope.
Generation(c, scope) == c.generation[scope]

\* Mutant of IsCurrent: a cached value outlives the reset of its scope.
IsCurrentWhatever(entry, generation) == entry.instance # NoInstance

\* The cached value was stored in the generation its scope is in.
IsCurrent(entry, generation) ==
    entry.instance # NoInstance /\ entry.generation = generation

\* container.provide / world.get: the cached instance, or a new one from the
\* provider, cached unless its scope is None.
CacheProvide(d) ==
    /\ LET scope == DependencyScope(d)
           hit == scope # NoScope /\ IsCurrent(cache.entries[d], Generation(cache, scope))
       IN /\ hit \/ cache.made < MaxInstances
          /\ cache' =
               IF hit
               THEN [cache EXCEPT !.returned[d] = cache.entries[d].instance,
                                  !.stale[d] = FALSE,
                                  !.op = "provide", !.error = "none"]
               ELSE [cache EXCEPT
                       !.made = cache.made + 1,
                       !.entries[d] = IF scope = NoScope THEN NoEntry
                                      ELSE [instance |-> cache.made + 1,
                                            generation |-> Generation(cache, scope)],
                       !.returned[d] = cache.made + 1,
                       !.stale[d] = FALSE,
                       !.op = "provide", !.error = "none"]
    /\ UNCHANGED <<provVars, wcall, dbg, vcall>>

\* world.scopes.reset(scope); the singleton scope cannot be reset.
CacheReset(scope) ==
    /\ IF scope = SingletonScope
       THEN cache' = [cache EXCEPT !.op = "reset", !.error = "ValueError"]
       ELSE /\ cache.generation[scope] < MaxResets
            /\ cache' = [cache EXCEPT
                           !.generation[scope] = @ + 1,
                           !.stale = [d \in CacheDependencies |->
                                         cache.stale[d] \/ DependencyScope(d) = scope],
                           !.op = "reset", !.error = "none"]
    /\ UNCHANGED <<provVars, wcall, dbg, vcall>>

(***************************************************************************)
(* IndirectProvider                                                        *)
(***************************************************************************)
Implementations(p) == heapSet[providers[p].implementations]

Indirect(p) == heapDict[providers[p].indirect]

Created == {p \in ProviderIds : providers[p].created}

\* Mutant of Exists: the implementation set is not looked at.
ExistsIndirectOnly(p, dependency) == DictHas(Indirect(p), dependency)

\* IndirectProvider.exists
Exists(p, dependency) ==
    DictHas(Indirect(p), dependency) \/ SetContains(Implementations(p), dependency)

\* Identifier objects in existence: register_implementation builds them and
\* hands out those it has registered.
LiveIdentifiers ==
    {PlainId(n) : n \in PlainKeys \cup {"A"}}
        \cup UNION {Implementations(p) : p \in Created}

\* Tables given to register_implicits: a plain key, or an implementation identifier
\* obtained from a registration, linked to a target.
ImplicitTables ==
    {{[k |-> PlainId(n), v |-> "A"]} : n \in PlainKeys}
        \cup {{[k |-> d, v |-> "B"]} : d \in UNION {Implementations(p) : p \in Created}}

Last(op, p, outcome, invoked) ==
    [op |-> op, p |-> p, outcome |-> outcome, invoked |-> invoked]

ProviderInit ==
    /\ providers = [p \in ProviderIds |->
                      [created |-> (p = "provider"), implementations |-> p,
                       indirect |-> p, implicits_registered |-> FALSE, keep |-> FALSE,
                       frozen |-> FALSE]]
    /\ heapSet = [r \in ProviderIds |-> {}]
    /\ heapDict = [r \in ProviderIds |-> {}]
    /\ choice \in [Resolvers -> {"A"}]
    /\ last = Last("none", "provider", "ok", 0)
    /\ returnedOn = [p \in ProviderIds |-> {}]
    /\ invokedOn = [p \in ProviderIds |-> {}]

\* The resolver's environment changes (the `choice` variable of the tests), or the
\* resolver starts to raise (validate_provided_class, implementation.py:138).
SetChoice(r, t) ==
    /\ choice[r] # t
    /\ choice' = [choice EXCEPT ![r] = t]
    /\ UNCHANGED <<providers, heapSet, heapDict, last, returnedOn, invokedOn, wcall, dbg, vcall, cache>>

\* Mutant of CloneFields: the set and the dict are shared with the original.
CloneFieldsShared(self, fresh, keep_singletons_cache) ==
    [created |-> TRUE, implementations |-> self.implementations,
     indirect |-> self.indirect,
     implicits_registered |-> self.implicits_registered,
     keep |-> keep_singletons_cache, frozen |-> FALSE]

\* Mutant of CloneFields: the clone may register an implicit table of its own.
CloneFieldsFlagReset(self, fresh, keep_singletons_cache) ==
    [created |-> TRUE, implementations |-> fresh, indirect |-> fresh,
     implicits_registered |-> FALSE,
     keep |-> keep_singletons_cache, frozen |-> FALSE]

\* IndirectProvider.clone: the fields of the new provider object.  `fresh` is the
\* reference of the copies made of the set and of the dict.  The new object is
\* bound to no container yet, hence not frozen.
CloneFields(self, fresh, keep_singletons_cache) ==
    [created |-> TRUE, implementations |-> fresh, indirect |-> fresh,
     implicits_registered |-> self.implicits_registered,
     keep |-> keep_singletons_cache, frozen |-> FALSE]

Clone(p, q, keep_singletons_cache) ==
    /\ providers[p].created
    /\ ~providers[q].created
    /\ providers' = [providers EXCEPT
                        ![q] = CloneFields(providers[p], q, keep_singletons_cache)]
    /\ heapSet' = [heapSet EXCEPT ![q] = Implementations(p)]
    /\ heapDict' = [heapDict EXCEPT ![q] = Indirect(p)]
    /\ last' = Last("clone", q, "ok", 0)
    /\ UNCHANGED <<choice, returnedOn, invokedOn, wcall, dbg, vcall, cache>>

\* Provider._assert_not_duplicate: DuplicateDependencyError when the provider
\* already owns the identifier.
AssertNotDuplicate(p, dependency) == ~Exists(p, dependency)

\* Mutant of RegisterImplicitsEffect: the keys are added one by one, each after
\* its own duplicate check.
RegisterImplicitsEffectKeyByKey(p, dependency_to_target) ==
    IF providers[p].implicits_registered
    THEN [outcome |-> "RuntimeError", implicits_registered |-> TRUE,
          indirect |-> Indirect(p)]
    ELSE IF \E e \in dependency_to_target : ~AssertNotDuplicate(p, e.k)
         THEN [outcome |-> "DuplicateDependencyError", implicits_registered |-> FALSE,
               indirect |-> DictUpdate(Indirect(p),
                                {e \in dependency_to_target : AssertNotDuplicate(p, e.k)})]
         ELSE [outcome |-> "ok", implicits_registered |-> TRUE,
               indirect |-> DictUpdate(Indirect(p), dependency_to_target)]

\* IndirectProvider.register_implicits: what it raises ("ok": nothing), and the
\* provider's flag and dict when it is left.
RegisterImplicitsEffect(p, dependency_to_target) ==
    IF providers[p].implicits_registered
    THEN [outcome |-> "RuntimeError", implicits_registered |-> TRUE,
          indirect |-> Indirect(p)]
    ELSE IF \E e \in dependency_to_target : ~AssertNotDuplicate(p, e.k)
         THEN [outcome |-> "DuplicateDependencyError", implicits_registered |-> FALSE,
               indirect |-> Indirect(p)]
         ELSE [outcome |-> "ok", implicits_registered |-> TRUE,
               indirect |-> DictUpdate(Indirect(p), dependency_to_target)]

RegisterImplicits(p, dependency_to_target) ==
    /\ providers[p].created
    /\ LET eff == RegisterImplicitsEffect(p, dependency_to_target) IN
        /\ last' = Last("register_implicits", p, eff.outcome, 0)
        /\ providers' = [providers EXCEPT
                            ![p].implicits_registered = eff.implicits_registered]
        /\ heapDict' = [heapDict EXCEPT ![providers[p].indirect] = eff.indirect]
    /\ UNCHANGED <<heapSet, choice, returnedOn, invokedOn, wcall, dbg, vcall, cache>>

\* IndirectProvider.register_implementation: what it raises ("ok": nothing, the
\* identifier is returned), and the provider's set when it is left.
RegisterImplementationEffect(p, impl) ==
    IF AssertNotDuplicate(p, impl)
    THEN [outcome |-> "ok", implementations |-> SetAdd(Implementations(p), impl)]
    ELSE [outcome |-> "DuplicateDependencyError", implementations |-> Implementations(p)]

RegisterImplementation(p, interface, implementation, permanent) ==
    /\ providers[p].created
    /\ LET impl == ImplementationDependency(interface, implementation, permanent)
           eff == RegisterImplementationEffect(p, impl)
       IN
        /\ last' = Last("register_implementation", p, eff.outcome, 0)
        /\ heapSet' = [heapSet EXCEPT ![providers[p].implementations] =
                           eff.implementations]
    /\ UNCHANGED <<providers, heapDict, choice, returnedOn, invokedOn, wcall, dbg, vcall, cache>>

\* Mutant of LookupIndirect: implementation identifiers are never found.
LookupIndirectPlainOnly(indirect, dependency) ==
    IF dependency.kind = "plain" /\ DictHas(indirect, dependency)
    THEN [found |-> TRUE, target |-> DictGet(indirect, dependency)]
    ELSE [found |-> FALSE, target |-> "-"]

\* maybe_provide, `try: target = self.__indirect[dependency]`: the static or
\* memoized target, if any.
LookupIndirect(indirect, dependency) ==
    IF DictHas(indirect, dependency)
    THEN [found |-> TRUE, target |-> DictGet(indirect, dependency)]
    ELSE [found |-> FALSE, target |-> "-"]

\* maybe_provide, `if impl.permanent: self.__indirect[dependency] = target`
Memoize(indirect, impl, target) ==
    IF impl.permanent THEN DictSet(indirect, impl, target) ELSE indirect

\* maybe_provide, `scope=value.scope if impl.permanent else None`
ResultScope(impl, value) == IF impl.permanent THEN value.scope ELSE NoScope

\* Mutant of MaybeProvideResult: a resolver that raises leaves a permanent
\* identifier frozen, on no target.
MaybeProvideResultFrozenOnRaise(implementations, indirect, dependency, resolve) ==
    LET link == LookupIndirect(indirect, dependency) IN
    IF link.found
    THEN LET value == ContainerProvide(link.target)
         IN [outcome |-> IF value.found THEN "value" ELSE "DependencyNotFoundError",
             invoked |-> 0, target |-> link.target, unwrapped |-> value.unwrapped,
             scope |-> IF value.found THEN value.scope ELSE "-", indirect |-> indirect]
    ELSE IF SetContains(implementations, dependency)
    THEN LET impl == dependency
             target == resolve[impl.implementation]
         IN IF target = "raise"
            THEN [outcome |-> "ResolverError", invoked |-> 1, target |-> "-",
                  unwrapped |-> "-", scope |-> "-",
                  indirect |-> Memoize(indirect, impl, "-")]
            ELSE LET stored == Memoize(indirect, impl, target)
                     value == ContainerProvide(target)
                 IN IF value.found
                    THEN [outcome |-> "value", invoked |-> 1, target |-> target,
                          unwrapped |-> value.unwrapped,
                          scope |-> ResultScope(impl, value), indirect |-> stored]
                    ELSE [outcome |-> "DependencyNotFoundError", invoked |-> 1,
                          target |-> target, unwrapped |-> "-", scope |-> "-",
                          indirect |-> stored]
    ELSE [outcome |-> "absent", invoked |-> 0, target |-> "-", unwrapped |-> "-",
          scope |-> "-", indirect |-> indirect]

\* Mutant of MaybeProvideResult: the target is memoized once the container has
\* provided it.
MaybeProvideResultMemoAfterProvide(implementations, indirect, dependency, resolve) ==
    LET link == LookupIndirect(indirect, dependency) IN
    IF link.found
    THEN LET value == ContainerProvide(link.target)
         IN [outcome |-> IF value.found THEN "value" ELSE "DependencyNotFoundError",
             invoked |-> 0, target |-> link.target, unwrapped |-> value.unwrapped,
             scope |-> IF value.found THEN value.scope ELSE "-", indirect |-> indirect]
    ELSE IF SetContains(implementations, dependency)
    THEN LET impl == dependency
             target == resolve[impl.implementation]
         IN IF target = "raise"
            THEN [outcome |-> "ResolverError", invoked |-> 1, target |-> "-",
                  unwrapped |-> "-", scope |-> "-", indirect |-> indirect]
            ELSE LET value == ContainerProvide(target)
                 IN IF value.found
                    THEN [outcome |-> "value", invoked |-> 1, target |-> target,
                          unwrapped |-> value.unwrapped,
                          scope |-> ResultScope(impl, value),
                          indirect |-> Memoize(indirect, impl, target)]
                    ELSE [outcome |-> "DependencyNotFoundError", invoked |-> 1,
                          target |-> target, unwrapped |-> "-", scope |-> "-",
                          indirect |-> indirect]
    ELSE [outcome |-> "absent", invoked |-> 0, target |-> "-", unwrapped |-> "-",
          scope |-> "-", indirect |-> indirect]

\* IndirectProvider.maybe_provide: what it returns or raises, whether it called the
\* resolver, and the provider's dict when it is left.  `resolve` maps a resolver
\* function to what it returns now ("raise": it raises).
MaybeProvideResult(implementations, indirect, dependency, resolve) ==
    LET link == LookupIndirect(indirect, dependency) IN
    IF link.found
    THEN LET value == ContainerProvide(link.target)
         IN [outcome |-> IF value.found THEN "value" ELSE "DependencyNotFoundError",
             invoked |-> 0, target |-> link.target, unwrapped |-> value.unwrapped,
             scope |-> IF value.found THEN value.scope ELSE "-", indirect |-> indirect]
    ELSE IF SetContains(implementations, dependency)
    THEN LET impl == dependency
             target == resolve[impl.implementation]
         IN IF target = "raise"
            THEN [outcome |-> "ResolverError", invoked |-> 1, target |-> "-",
                  unwrapped |-> "-", scope |-> "-", indirect |-> indirect]
            ELSE LET stored == Memoize(indirect, impl, target)
                     value == ContainerProvide(target)
                 IN IF value.found
                    THEN [outcome |-> "value", invoked |-> 1, target |-> target,
                          unwrapped |-> value.unwrapped,
                          scope |-> ResultScope(impl, value), indirect |-> stored]
                    ELSE [outcome |-> "DependencyNotFoundError", invoked |-> 1,
                          target |-> target, unwrapped |-> "-", scope |-> "-",
                          indirect |-> stored]
    ELSE [outcome |-> "absent", invoked |-> 0, target |-> "-", unwrapped |-> "-",
          scope |-> "-", indirect |-> indirect]

MaybeProvide(p, dependency) ==
    /\ providers[p].created
    /\ LET res == MaybeProvideResult(Implementations(p), Indirect(p), dependency, choice) IN
        /\ heapDict' = [heapDict EXCEPT ![providers[p].indirect] = res.indirect]
        /\ last' = Last("maybe_provide", p, res.outcome, res.invoked)
        /\ invokedOn' = IF res.invoked = 1 /\ dependency.permanent
                        THEN [invokedOn EXCEPT ![p] = @ \cup {dependency}]
                        ELSE invokedOn
        /\ returnedOn' = IF /\ res.invoked = 1 /\ dependency.permanent
                            /\ res.outcome # "ResolverError"
                         THEN [returnedOn EXCEPT ![p] = @ \cup {dependency}]
                         ELSE returnedOn
    /\ UNCHANGED <<providers, heapSet, choice, wcall, dbg, vcall, cache>>

\* IndirectProvider.maybe_debug: the DependencyDebug it returns (info is
\* debug_repr's prefix, __antidote_debug_repr__), and whether it called the resolver.
MaybeDebugResult(implementations, indirect, dependency, resolve) ==
    IF SetContains(implementations, dependency)
    THEN LET impl == dependency
             memoized == DictHas(indirect, dependency)
             target == IF memoized THEN DictGet(indirect, dependency)
                       ELSE resolve[impl.implementation]
         IN IF target = "raise"
            THEN [outcome |-> "ResolverError", invoked |-> 1, target |-> "-",
                  scope |-> "-", info |-> "-"]
            ELSE [outcome |-> "value", invoked |-> IF memoized THEN 0 ELSE 1,
                  target |-> target,
                  scope |-> IF impl.permanent THEN SingletonScope ELSE NoScope,
                  info |-> IF impl.permanent THEN "Permanent implementation"
                           ELSE "Implementation"]
    ELSE IF DictHas(indirect, dependency)
    THEN [outcome |-> "value", invoked |-> 0, target |-> DictGet(indirect, dependency),
          scope |-> SingletonScope, info |-> "Implicit"]
    ELSE [outcome |-> "absent", invoked |-> 0, target |-> "-", scope |-> "-",
          info |-> "-"]

\* Mutant of MaybeDebug: describing an unresolved identifier stores its target as
\* maybe_provide does.
MaybeDebugMemoizing(p, dependency) ==
    /\ providers[p].created
    /\ LET res == MaybeDebugResult(Implementations(p), Indirect(p), dependency, choice) IN
        /\ last' = Last("maybe_debug", p, res.outcome, res.invoked)
        /\ heapDict' = IF res.outcome = "value" /\ res.invoked = 1
                       THEN [heapDict EXCEPT ![providers[p].indirect] =
                                Memoize(Indirect(p), dependency, res.target)]
                       ELSE heapDict
    /\ UNCHANGED <<providers, heapSet, choice, returnedOn, invokedOn, wcall, dbg, vcall, cache>>

MaybeDebug(p, dependency) ==
    /\ providers[p].created
    /\ LET res == MaybeDebugResult(Implementations(p), Indirect(p), dependency, choice) IN
        last' = Last("maybe_debug", p, res.outcome, res.invoked)
    /\ UNCHANGED <<providers, heapSet, heapDict, choice, returnedOn, invokedOn, wcall, dbg, vcall, cache>>

(***************************************************************************)
(* Registration on a frozen container (specification SpecFreeze).  The      *)
(* registration methods of a provider are guarded by the container the      *)
(* provider is bound to: once it is frozen they raise FrozenWorldError      *)
(* before their body runs.                                                  *)
(***************************************************************************)
\* Mutant of RaiseIfFrozen: the guard lets every registration through.
RaiseIfFrozenNever(p) == FALSE

\* The guard raises FrozenWorldError.
RaiseIfFrozen(p) == providers[p].frozen

\* world.freeze()
Freeze(p) ==
    /\ providers[p].created
    /\ ~providers[p].frozen
    /\ providers' = [providers EXCEPT ![p].frozen = TRUE]
    /\ last' = Last("freeze", p, "ok", 0)
    /\ UNCHANGED <<heapSet, heapDict, choice, returnedOn, invokedOn, wcall, dbg, vcall, cache>>

\* A registration refused by the guard: nothing of the method's body runs.
Refused(op, p) ==
    /\ providers[p].created
    /\ last' = Last(op, p, "FrozenWorldError", 0)
    /\ UNCHANGED <<providers, heapSet, heapDict, choice, returnedOn, invokedOn, wcall, dbg, vcall, cache>>

GuardedRegisterImplementation(p, interface, implementation, permanent) ==
    IF RaiseIfFrozen(p)
    THEN Refused("register_implementation", p)
    ELSE RegisterImplementation(p, interface, implementation, permanent)

GuardedRegisterImplicits(p, dependency_to_target) ==
    IF RaiseIfFrozen(p)
    THEN Refused("register_implicits", p)
    ELSE RegisterImplicits(p, dependency_to_target)

NextFreeze ==
    \/ Freeze("provider")
    \/ \E i \in Interfaces, r \in Resolvers, b \in BOOLEAN :
          GuardedRegisterImplementation("provider", i, r, b)
    \/ \E t \in ImplicitTables : GuardedRegisterImplicits("provider", t)
    \/ \E d \in LiveIdentifiers \cup ImplObjects : MaybeProvide("provider", d)
    \/ \E d \in LiveIdentifiers \cup ImplObjects : MaybeDebug("provider", d)
    \/ \E r \in Resolvers, t \in {"A", "B", "C", "raise"} : SetChoice(r, t)

(***************************************************************************)
(* Properties of the provider (specification Spec)                         *)
(***************************************************************************)
\* What maybe_provide and maybe_debug would return in the current state.
ProvideNow(p, d) == MaybeProvideResult(Implementations(p), Indirect(p), d, choice)

DebugNow(p, d) == MaybeDebugResult(Implementations(p), Indirect(p), d, choice)

\* Entries of the dict that memoize the target of a registered implementation.
MemoEntries(p) == {e \in Indirect(p) : SetContains(Implementations(p), e.k)}

\* Identifier objects a registration or a resolution has stored in the provider.
Registered(p) == Implementations(p) \cup {e.k : e \in Indirect(p)}

\* C1 as stated: once the resolver of an identifier registered with permanent=true
\* has been invoked by a provide call for that identifier, whether that call failed
\* or not, no provide call for it invokes the resolver again; a provide call for an
\* identifier registered with permanent=false invokes the resolver exactly once.
C1_InvokedOnceOrEachTime ==
    \A p \in Created : \A d \in Implementations(p) :
        /\ (d.permanent /\ d \in invokedOn[p]) => ProvideNow(p, d).invoked = 0
        /\ ~d.permanent => ProvideNow(p, d).invoked = 1

\* C2, first half: the target the resolver returned to a resolution of a permanent
\* identifier is memoized, and a memoized target is what every resolution of an
\* equal identifier asks the container for, without invoking the resolver, whatever
\* the resolver would return now.
C2_ResolvesMemo ==
    \A p \in Created :
        /\ \A d \in returnedOn[p] : \E e \in MemoEntries(p) : Equal(e.k, d)
        /\ \A e \in MemoEntries(p) : \A d \in LiveIdentifiers :
              Equal(e.k, d) =>
                  /\ ProvideNow(p, d).target = e.v
                  /\ ProvideNow(p, d).invoked = 0

\* C2, second half: no operation replaces or removes a memoized target.
C2_MemoKept ==
    \A p \in Created : \A e \in MemoEntries(p) : e \in MemoEntries(p)'

\* C2: the transition unresolved -> resolved(T) of a permanent implementation is
\* one-way: once a target T is memoized, every later resolution on that provider
\* resolves T and no operation replaces or removes the memoized target.
C2_OneWay == []C2_ResolvesMemo /\ [][C2_MemoKept]_vars

\* A target is memoized, the resolver would now return another service, and the last
\* resolution still went to the memoized target.
C2_Witness ==
    \E p \in Created : \E e \in MemoEntries(p) :
        /\ ~providers[p].implicits_registered
        /\ choice[e.k.implementation] \in {"A", "B"} \ {e.v}
        /\ e.v \in {"A", "B"}
        /\ last = Last("maybe_provide", p, "value", 0)

\* C3 as stated: the value returned for an implicit link or for an identifier
\* registered with permanent=true carries the scope the container gave with the
\* target; the value returned for an identifier registered with permanent=false
\* carries scope None.
C3_ScopePolicy ==
    \A p \in Created : \A d \in LiveIdentifiers :
        LET res == ProvideNow(p, d) IN
        res.outcome = "value" =>
            /\ (DictHas(Indirect(p), d) /\ ~SetContains(Implementations(p), d)) =>
                   res.scope = ContainerProvide(res.target).scope
            /\ (d \in Implementations(p) /\ d.permanent) =>
                   res.scope = ContainerProvide(res.target).scope
            /\ (d \in Implementations(p) /\ ~d.permanent) => res.scope = NoScope

\* C4 as stated: a registered identifier exists, and every further registration that
\* claims an equal identifier, by register_implementation or by register_implicits,
\* raises DuplicateDependencyError.
C4_SecondRegistrationIsDuplicate ==
    \A p \in Created : \A d \in Registered(p) :
        /\ Exists(p, d)
        /\ \A x \in ImplObjects : Equal(x, d) =>
              RegisterImplementationEffect(p, x).outcome = "DuplicateDependencyError"
        /\ \A t \in ImplicitTables : (\E e \in t : Equal(e.k, d)) =>
              RegisterImplicitsEffect(p, t).outcome = "DuplicateDependencyError"

\* C4 amended: a registered identifier exists; register_implementation of an equal
\* identifier raises DuplicateDependencyError; register_implicits of a table with an
\* equal key raises DuplicateDependencyError, or RuntimeError ("already defined")
\* when the provider's implicit table has been registered before; in each case the
\* provider's set, dict and flag are left as they were.
C4_SecondRegistrationRejected ==
    \A p \in Created : \A d \in Registered(p) :
        /\ Exists(p, d)
        /\ \A x \in ImplObjects : Equal(x, d) =>
              LET eff == RegisterImplementationEffect(p, x) IN
              /\ eff.outcome = "DuplicateDependencyError"
              /\ eff.implementations = Implementations(p)
        /\ \A t \in ImplicitTables : (\E e \in t : Equal(e.k, d)) =>
              LET eff == RegisterImplicitsEffect(p, t) IN
              /\ eff.outcome = IF providers[p].implicits_registered
                               THEN "RuntimeError" ELSE "DuplicateDependencyError"
              /\ eff.indirect = Indirect(p)
              /\ eff.implicits_registered = providers[p].implicits_registered

\* A registration was rejected as a duplicate on a provider that holds an
\* implementation and whose implicit table is registered.
C4_Witness ==
    \E p \in Created :
        /\ Implementations(p) # {}
        /\ providers[p].implicits_registered
        /\ last = Last("register_implementation", p, "DuplicateDependencyError", 0)

\* What a provider holds; exists, maybe_provide and maybe_debug report nothing but
\* functions of it and of the resolvers' answers.
StoreOf(p) ==
    <<Implementations(p), Indirect(p), providers[p].implicits_registered>>

\* C7: what a provider holds (registrations, memoized targets) changes only in an
\* operation made on that provider itself: registrations and resolutions on the
\* clone leave the original as it was, and those on the original leave the clone.
C7_CloneIndependent ==
    [][\A p \in ProviderIds : StoreOf(p)' # StoreOf(p) => last'.p = p]_vars

\* The clone has registered and resolved on its own, and so has the original.
C7_Witness ==
    /\ providers["clone"].created
    /\ returnedOn["clone"] # {}
    /\ Implementations("clone") # Implementations("provider")
    /\ Indirect("clone") # Indirect("provider")
    /\ Indirect("provider") # {}
    /\ last.p = "clone"

\* C9 as stated: maybe_debug invokes no resolver.
C9_DebugInvokesNoResolver == last.op = "maybe_debug" => last.invoked = 0

\* C10 as stated: a clone made with keep_singletons_cache=False holds no memoized
\* target but those its own resolutions got from the resolver.
C10_CloneDropsMemo ==
    (providers["clone"].created /\ ~providers["clone"].keep) =>
        \A e \in MemoEntries("clone") : \E d \in returnedOn["clone"] : Equal(d, e.k)

\* Every further register_implicits is refused as 'already defined' and leaves the
\* dict and the flag as they are.
C11_Refused ==
    \A p \in Created :
        /\ (last.op = "register_implicits" /\ last.outcome = "ok" /\ last.p = p) =>
              providers[p].implicits_registered
        /\ providers[p].implicits_registered =>
              \A t \in ImplicitTables \cup {{}} :
                  LET eff == RegisterImplicitsEffect(p, t) IN
                  /\ eff.outcome = "RuntimeError"
                  /\ eff.outcome # "DuplicateDependencyError"
                  /\ eff.indirect = Indirect(p)
                  /\ eff.implicits_registered

\* The flag of a provider is never reset, and a clone starts with the flag of the
\* provider it is made of.
C11_FlagKept ==
    /\ \A p \in Created : providers[p].implicits_registered =>
                              providers'[p].implicits_registered
    /\ \A q \in ProviderIds : (~providers[q].created /\ providers'[q].created) =>
          providers'[q].implicits_registered = providers["provider"].implicits_registered

\* C11: the implicit table is registered at most once per provider: after a
\* successful register_implicits every further register_implicits on that provider,
\* and on the clone made of it afterwards, raises the 'already defined'
\* RuntimeError, which is not DuplicateDependencyError, whatever the keys of the
\* table, and leaves the static map unchanged.
C11_ImplicitsOnce == []C11_Refused /\ [][C11_FlagKept]_vars

\* The clone of a provider whose table was registered has refused a table.
C11_Witness ==
    /\ providers["clone"].created
    /\ last = Last("register_implicits", "clone", "RuntimeError", 0)
    /\ Indirect("clone") = Indirect("provider")
    /\ Indirect("clone") # {}

\* Implementation identifiers of more interfaces and resolvers than are registered.
ImplObjectsWide ==
    {ImplementationDependency(i, r, b) :
        i \in Interfaces \cup {"OtherInterface"}, r \in Resolvers \cup {"other"},
        b \in BOOLEAN}

\* C12: two implementation identifiers are equal exactly when they have the same
\* interface and resolver, whatever their permanent flags, and equal ones hash
\* alike; registering the (interface, resolver) of a registered identifier again
\* with the other permanent value raises DuplicateDependencyError and leaves the
\* set unchanged.
C12_EqualityIgnoresPermanent ==
    /\ \A a, b \in ImplObjectsWide :
          /\ Equal(a, b) <=> (a.interface = b.interface
                                 /\ a.implementation = b.implementation)
          /\ Equal(a, b) => Hash(a) = Hash(b)
    /\ \A p \in Created : \A d \in Implementations(p) :
          LET eff == RegisterImplementationEffect(p,
                        ImplementationDependency(d.interface, d.implementation,
                                                 ~d.permanent))
          IN /\ eff.outcome = "DuplicateDependencyError"
             /\ eff.implementations = Implementations(p)

\* A registration was refused on a provider that holds one implementation only.
C12_Witness ==
    /\ last = Last("register_implementation", "provider", "DuplicateDependencyError", 0)
    /\ Cardinality(Implementations("provider")) = 1
    /\ Indirect("provider") = {}

\* After a refused registration the provider gives no answer for an identifier it
\* does not own.
C13_Refusing ==
    \A p \in Created : (providers[p].frozen /\ last.outcome = "FrozenWorldError") =>
        \A d \in ImplObjects \cup {PlainId(n) : n \in PlainKeys} :
            ~Exists(p, d) => ProvideNow(p, d).outcome = "absent"

\* Once the container is frozen, a registration step ends with FrozenWorldError,
\* the provider's set, dict and flag are left as they were, and what the provider
\* did not own it still does not own, nor does it provide it.
C13_NothingRegistered ==
    \A p \in Created : providers[p].frozen =>
        /\ providers'[p].frozen
        /\ StoreOf(p)' = StoreOf(p) \/ last'.op = "maybe_provide"
        /\ last'.op \in {"register_implementation", "register_implicits"} =>
              /\ last'.outcome = "FrozenWorldError"
              /\ StoreOf(p)' = StoreOf(p)
        /\ \A d \in ImplObjects \cup {PlainId(n) : n \in PlainKeys} :
              ~Exists(p, d) => /\ ~Exists(p, d)'
                               /\ ProvideNow(p, d)'.outcome = "absent"

\* C13: once the container is frozen, register_implementation (with either
\* permanent value) and register_implicits raise FrozenWorldError and register
\* nothing: the identifiers they named stay unowned and resolving them finds no
\* provider (the provider returns absent, which the container reports as
\* DependencyNotFoundError).
C13_FrozenRegistersNothing == []C13_Refusing /\ [][C13_NothingRegistered]_vars

\* test_freeze: a registration was refused on a frozen provider that owns nothing.
C13_Witness ==
    /\ providers["provider"].frozen
    /\ last.outcome = "FrozenWorldError"
    /\ Implementations("provider") = {}
    /\ Indirect("provider") = {}

\* Tables a caller may give to register_implicits: one to three keys, plain or
\* implementation identifiers, no two of them equal.
WideTables ==
    LET entries == {[k |-> PlainId("Interface"), v |-> "A"], [k |-> PlainId("A"), v |-> "B"]}
                       \cup {[k |-> d, v |-> "B"] : d \in ImplObjects}
    IN {t \in SUBSET entries :
           /\ t # {}
           /\ \A e, f \in t : Equal(e.k, f.k) => e = f}

\* A key of the table is owned by the provider.
Conflicting(p, t) == \E e \in t : Exists(p, e.k)

\* The call register_implicits(t) made now raises `error`, adds no key and leaves
\* the flag as it is.
RefusedWith(p, t, error) ==
    LET eff == RegisterImplicitsEffect(p, t)
    IN /\ eff.outcome = error
       /\ eff.indirect = Indirect(p)
       /\ eff.implicits_registered = providers[p].implicits_registered

\* C25 as stated: a table with a key the provider owns is refused with
\* DuplicateDependencyError, no key is added and the flag is not set by the call, so
\* that a conflict-free table is still accepted afterwards.
C25_AllOrNothing ==
    \A p \in Created, t \in WideTables :
        Conflicting(p, t) =>
            /\ RefusedWith(p, t, "DuplicateDependencyError")
            /\ \A u \in WideTables :
                  ~Conflicting(p, u) => RegisterImplicitsEffect(p, u).outcome = "ok"

\* C25: as long as no table was registered, a table with a key the provider owns
\* is refused with DuplicateDependencyError, no key of it is added and the flag is
\* left unset, so that a conflict-free table is still accepted afterwards; once a
\* table was registered every table is refused with RuntimeError, and nothing is
\* added either.
C25_AllOrNothingBeforeRegistered ==
    \A p \in Created, t \in WideTables :
        /\ (Conflicting(p, t) /\ ~providers[p].implicits_registered) =>
              /\ RefusedWith(p, t, "DuplicateDependencyError")
              /\ \A u \in WideTables :
                    ~Conflicting(p, u) =>
                        /\ RegisterImplicitsEffect(p, u).outcome = "ok"
                        /\ RegisterImplicitsEffect(p, u).implicits_registered
                        /\ \A e \in u : DictHas(RegisterImplicitsEffect(p, u).indirect, e.k)
        /\ providers[p].implicits_registered => RefusedWith(p, t, "RuntimeError")

\* A table was refused as duplicate: the flag is unset, and a table with the owned
\* key and a free one would add neither.
C25_Witness ==
    /\ last = Last("register_implicits", "provider", "DuplicateDependencyError", 0)
    /\ ~providers["provider"].implicits_registered
    /\ \E t \in WideTables :
          /\ Conflicting("provider", t)
          /\ \E e \in t : ~Exists("provider", e.k)
          /\ RefusedWith("provider", t, "DuplicateDependencyError")

\* What maybe_provide(d) does now, by where d is found.
C26_Order ==
    \A p \in Created, d \in Identifiers :
        LET res == ProvideNow(p, d)
        IN /\ DictHas(Indirect(p), d) =>
                 /\ res.invoked = 0
                 /\ res.target = DictGet(Indirect(p), d)
                 /\ res.outcome \in {"value", "DependencyNotFoundError"}
                 /\ res.indirect = Indirect(p)
           /\ (~DictHas(Indirect(p), d) /\ SetContains(Implementations(p), d)) =>
                 /\ res.invoked = 1
                 /\ res.outcome # "absent"
                 /\ res.target = (IF choice[d.implementation] = "raise" THEN "-"
                                  ELSE choice[d.implementation])
           /\ (~DictHas(Indirect(p), d) /\ ~SetContains(Implementations(p), d)) =>
                 /\ res.outcome = "absent"
                 /\ res.invoked = 0
                 /\ res.target = "-"
                 /\ res.unwrapped = "-"
                 /\ res.indirect = Indirect(p)

\* A maybe_provide call that returns None changes no provider.
C26_AbsentFrame ==
    (last'.op = "maybe_provide" /\ last'.outcome = "absent") =>
        \A p \in ProviderIds : StoreOf(p)' = StoreOf(p)

\* C26: maybe_provide answers from the static and memoized map when the identifier
\* is a key of it, without looking at the implementation set or calling a
\* resolver; otherwise from the implementation set, calling the resolver; and when
\* neither holds the identifier it returns None, having called neither the
\* container nor a resolver, and leaves the provider as it was.
C26_MapFirstThenSet == []C26_Order /\ [][C26_AbsentFrame]_vars

\* The provider holds an identifier in the map and in the set, and a maybe_provide
\* call for an identifier it does not own has just returned None.
C26_Witness ==
    /\ last = Last("maybe_provide", "provider", "absent", 0)
    /\ \E d \in Implementations("provider") : DictHas(Indirect("provider"), d)
    /\ \E d \in LiveIdentifiers : ~Exists("provider", d)

\* The entry of the implementation set that `d in implementations` finds.
RegisteredEntry(p, d) == CHOOSE r \in Implementations(p) : Equal(r, d)

\* C27: resolving a non-permanent implementation never writes to the memo map: no
\* identifier registered with permanent=False is a key of the map, and a key of
\* the map that is a registered implementation identifier is one registered with
\* permanent=True whose resolver has been invoked and has returned.
C27_MemoOnlyPermanentResolved ==
    \A p \in Created : \A e \in MemoEntries(p) :
        /\ RegisteredEntry(p, e.k).permanent
        /\ \E q \in ProviderIds : \E d \in returnedOn[q] : Equal(d, e.k)

\* C28: the scope maybe_debug reports for an identifier the provider owns is the
\* scope of the value maybe_provide returns for it: the scope of the target's value
\* for an implicit link and for a permanent implementation, None for a
\* non-permanent implementation.
C28_DebugScopeIsValueScope ==
    \A p \in Created : \A d \in Registered(p) :
        LET debug == DebugNow(p, d)
            value == ProvideNow(p, d)
        IN (debug.outcome = "value" /\ ContainerProvide(debug.target).found) =>
              /\ debug.scope = value.scope
              /\ debug.scope = IF d \in Implementations(p) /\ ~d.permanent
                               THEN NoScope
                               ELSE ContainerProvide(debug.target).scope

\* The resolvers' answers with resolver r raising.
Raising(r) == [choice EXCEPT ![r] = "raise"]

\* A resolution of a permanent implementation whose resolver raises: what it
\* leaves in the dict, and what the next resolution does whatever the resolver
\* answers then.
C31_RaiseLeavesUnresolved ==
    \A p \in Created : \A d \in Implementations(p) :
        (d.permanent /\ ~DictHas(Indirect(p), d)) =>
            LET res == MaybeProvideResult(Implementations(p), Indirect(p), d,
                                          Raising(d.implementation))
            IN /\ res.outcome = "ResolverError"
               /\ res.invoked = 1
               /\ res.indirect = Indirect(p)
               /\ ~DictHas(res.indirect, d)
               /\ MaybeProvideResult(Implementations(p), res.indirect, d, choice).invoked = 1

\* A maybe_provide call the resolver's exception leaves changes no provider.
C31_RaiseFrame ==
    (last'.op = "maybe_provide" /\ last'.outcome = "ResolverError") =>
        /\ last'.invoked = 1
        /\ \A p \in ProviderIds : StoreOf(p)' = StoreOf(p)
        /\ returnedOn' = returnedOn

\* C31: when the resolver of a permanent implementation raises, the provider is
\* left as it was: nothing is memoized, the identifier stays unresolved and the
\* next resolution invokes the resolver again.
C31_ResolverRaises == []C31_RaiseLeavesUnresolved /\ [][C31_RaiseFrame]_vars

\* The resolver of a registered permanent implementation has just raised in
\* maybe_provide, and the identifier is not memoized.
C31_Witness ==
    /\ last = Last("maybe_provide", "provider", "ResolverError", 1)
    /\ \E d \in Implementations("provider") :
          /\ d.permanent
          /\ d \in invokedOn["provider"]
          /\ d \notin returnedOn["provider"]
          /\ ~DictHas(Indirect("provider"), d)
          /\ choice[d.implementation] = "raise"

\* What the resolvers may answer at a later resolution.
LaterChoices == [Resolvers -> {"A", "B", "C", "raise"}]

\* A first resolution of a permanent implementation whose resolver returns a
\* target the container cannot provide: the dict it leaves, and what a later
\* resolution does whatever the resolver would answer then.
C32_FrozenOnFailedTarget ==
    \A p \in Created : \A d \in Implementations(p) :
        LET target == choice[d.implementation]
            res == ProvideNow(p, d)
        IN (/\ d.permanent
            /\ ~DictHas(Indirect(p), d)
            /\ target # "raise"
            /\ ~ContainerProvide(target).found) =>
               /\ res.outcome = "DependencyNotFoundError"
               /\ res.invoked = 1
               /\ DictHas(res.indirect, d)
               /\ DictGet(res.indirect, d) = target
               /\ \A later \in LaterChoices :
                     LET next == MaybeProvideResult(Implementations(p), res.indirect,
                                                    d, later)
                     IN /\ next.invoked = 0
                        /\ next.target = target
                        /\ next.outcome = "DependencyNotFoundError"
                        /\ next.indirect = res.indirect

\* The maybe_provide call in which the resolver of a permanent identifier
\* returned: the identifier is memoized on what the resolver returned, whether the
\* container provided it or not.
C32_MemoizedOnReturn ==
    \A p \in ProviderIds : \A d \in returnedOn'[p] \ returnedOn[p] :
        /\ DictHas(Indirect(p)', d)
        /\ DictGet(Indirect(p)', d) = choice[d.implementation]
        /\ last'.outcome \in {"value", "DependencyNotFoundError"}

\* C32: the target of a permanent implementation is memoized before the target is
\* resolved: when the resolver returns T and resolving T fails with
\* DependencyNotFoundError, the identifier is frozen on T all the same, and later
\* resolutions go to T without invoking the resolver.
C32_MemoBeforeResolve == []C32_FrozenOnFailedTarget /\ [][C32_MemoizedOnReturn]_vars

\* A permanent implementation is frozen on C, which no provider claims: the first
\* resolution failed, and the last one failed again without invoking the resolver
\* that would now return A.
C32_Witness ==
    /\ last = Last("maybe_provide", "provider", "DependencyNotFoundError", 0)
    /\ \E d \in Implementations("provider") :
          /\ d.permanent
          /\ d \in returnedOn["provider"]
          /\ DictHas(Indirect("provider"), d)
          /\ DictGet(Indirect("provider"), d) = "C"
          /\ choice[d.implementation] = "A"

\* C33: resolution follows the permanent flag given at registration: an identifier
\* equal to a registered one is resolved (memoized or not, scope of the value) and
\* described (text, scope) with the permanence of the registered entry, whatever
\* permanent flag the queried object carries.
C33_RegisteredPermanence ==
    \A p \in Created : \A d \in LiveIdentifiers :
        SetContains(Implementations(p), d) =>
            LET entry == RegisteredEntry(p, d)
                res == ProvideNow(p, d)
                debug == DebugNow(p, d)
            IN /\ (res.outcome = "value" /\ res.invoked = 1) =>
                      /\ res.scope = ResultScope(entry, ContainerProvide(res.target))
                      /\ DictHas(res.indirect, d) <=> entry.permanent
               /\ debug.outcome = "value" =>
                      /\ debug.info = IF entry.permanent THEN "Permanent implementation"
                                      ELSE "Implementation"
                      /\ debug.scope = IF entry.permanent THEN SingletonScope
                                       ELSE NoScope

\* What a DependencyDebug displays: the prefix of its text, its scope and the
\* target it lists as dependency (or that the call raised, or returned None).
Description(res) == <<res.outcome, res.info, res.scope, res.target>>

\* A maybe_debug call leaves what every provider holds as it was.
C18_Frame ==
    last'.op = "maybe_debug" => \A p \in ProviderIds : StoreOf(p)' = StoreOf(p)

\* A maybe_provide call that memoizes a target changes the description its
\* provider gives of no implementation identifier (a call that memoizes nothing
\* leaves all that a description is computed from as it was).
C18_SameDescription ==
    (last'.op = "maybe_provide" /\ heapDict' # heapDict) =>
        \A p \in Created :
            p = last'.p =>
                \A d \in ImplObjects :
                    Description(DebugNow(p, d))' = Description(DebugNow(p, d))

\* C18: maybe_debug changes neither the static map, nor the implementation set,
\* nor the implicits flag, nor the memoized targets: describing an unresolved
\* permanent implementation memoizes nothing, and the description of an
\* implementation identifier is the same before and after the call that
\* resolves it.
C18_DebugHasNoSideEffect == [][C18_Frame /\ C18_SameDescription]_vars

\* A permanent implementation was described before any resolution: the resolver
\* gave the target, and the dict still has no entry for it.
C18_Witness ==
    /\ last = Last("maybe_debug", "provider", "value", 1)
    /\ \E d \in Implementations("provider") :
          /\ d.permanent
          /\ ~DictHas(Indirect("provider"), d)
    /\ MemoEntries("provider") = {}

\* C19: exists, maybe_provide and maybe_debug own the same identifiers in every
\* state: exists(d) holds iff maybe_provide(d) does not return None iff
\* maybe_debug(d) does not return None; exists is a function of the state, and the
\* target of a link is owned only if it is itself a key registered in the provider.
C19_SameOwnership ==
    \A p \in Created :
        /\ \A d \in Identifiers :
              /\ Exists(p, d) <=> ProvideNow(p, d).outcome # "absent"
              /\ Exists(p, d) <=> DebugNow(p, d).outcome # "absent"
        /\ \A e \in Indirect(p) :
              Exists(p, PlainId(e.v)) <=> SetContains(Registered(p), PlainId(e.v))

\* A registered implementation identifier that is not memoized is owned, next to
\* a link whose target is not.
C19_Witness ==
    \E d \in ImplObjects, e \in Indirect("provider") :
        /\ SetContains(Implementations("provider"), d)
        /\ ~DictHas(Indirect("provider"), d)
        /\ Exists("provider", d)
        /\ ProvideNow("provider", d).outcome # "absent"
        /\ DebugNow("provider", d).outcome # "absent"
        /\ ~Exists("provider", PlainId(e.v))

(***************************************************************************)
(* InjectedWrapper and _inject_kwargs (specification SpecWrapper)          *)
(***************************************************************************)
\* Number of parameters of the wrapped callable, the receiver included.
MaxParams == 2

\* Dependencies a blueprint names: "a" is provided by the container, "missing" is
\* claimed by no provider, "cyclic" raises DependencyCycleError when resolved.
Dependencies == {"a", "missing", "cyclic"}

\* container.get(dependency): the instance, or the error it raises.
ContainerGet(dependency) ==
    CASE dependency = "a" -> [error |-> "none", value |-> "instance of a"]
      [] dependency = "missing" -> [error |-> "DependencyNotFoundError", value |-> "-"]
      [] OTHER -> [error |-> "DependencyCycleError", value |-> "-"]

\* Injection: the parameter at position i is named i.
Injection(arg_name, required, dependency) ==
    [arg_name |-> arg_name, required |-> required, dependency |-> dependency]

\* The Injection records a parameter may have; one without dependency is never
\* resolved, so that its `required` does not matter.
Injections(arg_name) ==
    {Injection(arg_name, TRUE, None)}
        \cup {Injection(arg_name, r, d) : r \in BOOLEAN, d \in Dependencies}

\* InjectionBlueprint: one Injection per parameter, in the order of the signature.
RECURSIVE BlueprintsOfLen(_)
BlueprintsOfLen(n) ==
    IF n = 0 THEN {<<>>}
    ELSE {Append(bp, inj) : bp \in BlueprintsOfLen(n - 1), inj \in Injections(n)}

Blueprints == UNION {BlueprintsOfLen(n) : n \in 1..MaxParams}

\* A keyword-argument mapping holding the caller's values for the names in `names`.
CallerKwargs(names) == [k \in names |-> "given"]

\* kwargs[name] = value
KwargsSet(kwargs, name, value) ==
    [k \in DOMAIN kwargs \cup {name} |-> IF k = name THEN value ELSE kwargs[k]]

NoKwargs == CallerKwargs({})

IdleWrapper ==
    [pc |-> "idle", blueprint |-> <<>>, skip_self |-> FALSE, nargs |-> 0, offset |-> 0,
     original |-> NoKwargs, caller |-> NoKwargs, copy |-> NoKwargs, ref |-> "caller",
     dirty |-> FALSE, idx |-> 0, attempted |-> {}, error |-> "none",
     passed |-> NoKwargs, wrapped |-> "none", instance |-> None, id |-> 0,
     gets |-> 0]

\* InjectedWrapper.__init__: self.__injection_offset
InjectionOffset(skip_self) == IF skip_self THEN 1 ELSE 0

\* InjectedWrapper.__call__: _inject_kwargs is entered with the caller's mapping and
\* the offset __injection_offset + len(args).  The caller gives nargs positional
\* arguments and keyword arguments for the parameters in `names`.
WrapperCall(blueprint, skip_self, nargs, names) ==
    /\ wcall.pc = "idle"
    /\ wcall' = [IdleWrapper EXCEPT
                    !.pc = "inject", !.blueprint = blueprint, !.skip_self = skip_self,
                    !.nargs = nargs, !.offset = InjectionOffset(skip_self) + nargs,
                    !.original = CallerKwargs(names), !.caller = CallerKwargs(names),
                    !.idx = InjectionOffset(skip_self) + nargs + 1]
    /\ UNCHANGED <<provVars, dbg, vcall, cache>>

\* The kinds of callable an InjectedWrapper stored in a class body wraps, and the
\* instances it is accessed through (None: through the class).
WrappedKinds == {"function", "classmethod", "staticmethod"}
Instances == {None, "instance"}

\* Mutant of BoundSkipSelf: the receiver is skipped whenever an instance is given.
BoundSkipSelfInstanceOnly(wrapped, instance) == instance # None

\* InjectedWrapper.__get__: the skip_self argument of the InjectedBoundWrapper
BoundSkipSelf(wrapped, instance) ==
    \/ wrapped = "classmethod"
    \/ (wrapped # "staticmethod" /\ instance # None)

\* InjectedWrapper.__get__ on the wrapper stored in a class: a new
\* InjectedBoundWrapper with the same blueprint.  The field id counts the
\* InjectedBoundWrapper objects made, and so names the one in hand.
Get(blueprint, wrapped, instance) ==
    /\ wcall.pc = "idle"
    /\ wcall' = [IdleWrapper EXCEPT
                    !.pc = "bound", !.blueprint = blueprint, !.wrapped = wrapped,
                    !.instance = instance, !.id = 1,
                    !.skip_self = BoundSkipSelf(wrapped, instance)]
    /\ UNCHANGED <<provVars, dbg, vcall, cache>>

\* InjectedBoundWrapper.__get__: `return self`
GetBound(instance) ==
    /\ wcall.pc = "bound"
    /\ wcall.gets = 0
    /\ wcall' = [wcall EXCEPT !.gets = 1]
    /\ UNCHANGED <<provVars, dbg, vcall, cache>>

\* InjectedWrapper.__call__ on the bound wrapper.
CallBound(nargs, names) ==
    /\ wcall.pc = "bound"
    /\ wcall' = [wcall EXCEPT
                    !.pc = "inject", !.nargs = nargs,
                    !.offset = InjectionOffset(wcall.skip_self) + nargs,
                    !.original = CallerKwargs(names), !.caller = CallerKwargs(names),
                    !.idx = InjectionOffset(wcall.skip_self) + nargs + 1]
    /\ UNCHANGED <<provVars, dbg, vcall, cache>>

\* The mapping the local variable kwargs of _inject_kwargs refers to.
Kwargs(c) == IF c.ref = "caller" THEN c.caller ELSE c.copy

\* Mutant of ShouldInject: a name the caller gave by keyword is injected again.
ShouldInjectWhateverGiven(injection, kwargs) == injection.dependency # None

\* _inject_kwargs: `injection.dependency is not None and injection.arg_name not in kwargs`
ShouldInject(injection, kwargs) ==
    injection.dependency # None /\ injection.arg_name \notin DOMAIN kwargs

\* Mutant of Caught: the handler catches every error.
CaughtAny(error) == TRUE

\* _inject_kwargs: `except DependencyNotFoundError`
Caught(error) == error = "DependencyNotFoundError"

\* Mutant of Reraise: a missing dependency aborts the call whatever `required` is.
ReraiseAlways(injection) == TRUE

\* _inject_kwargs: `except DependencyNotFoundError: if injection.required: raise`
Reraise(injection) == injection.required

\* Mutant of StoreInjected: the value is stored in the mapping received.
StoreInjectedInPlace(c, injection, arg) ==
    [c EXCEPT !.caller = KwargsSet(c.caller, injection.arg_name, arg), !.dirty = TRUE]

\* _inject_kwargs: `if not dirty_kwargs: kwargs = kwargs.copy()`, then
\* `kwargs[injection.arg_name] = arg`.
StoreInjected(c, injection, arg) ==
    LET copied == IF c.dirty THEN c ELSE [c EXCEPT !.copy = Kwargs(c), !.ref = "copy",
                                                   !.dirty = TRUE]
    IN IF copied.ref = "caller"
       THEN [copied EXCEPT !.caller = KwargsSet(copied.caller, injection.arg_name, arg)]
       ELSE [copied EXCEPT !.copy = KwargsSet(copied.copy, injection.arg_name, arg)]

\* _inject_kwargs: one iteration of `for injection in blueprint.injections[offset:]`.
InjectOne(c) ==
    LET injection == c.blueprint[c.idx]
        next == [c EXCEPT !.idx = c.idx + 1]
    IN IF ShouldInject(injection, Kwargs(c))
       THEN LET got == ContainerGet(injection.dependency)
                tried == [next EXCEPT !.attempted = c.attempted \cup {c.idx}]
            IN IF got.error = "none"
               THEN StoreInjected(tried, injection, got.value)
               ELSE IF Caught(got.error) /\ ~Reraise(injection)
                    THEN tried
                    ELSE [tried EXCEPT !.pc = "raised", !.error = got.error,
                                       !.idx = c.idx]
       ELSE next

InjectStep ==
    /\ wcall.pc = "inject"
    /\ wcall.idx <= Len(wcall.blueprint)
    /\ wcall' = InjectOne(wcall)
    /\ UNCHANGED <<provVars, dbg, vcall, cache>>

\* InjectedWrapper.__call__: `return self.__wrapped__(*args, **kwargs)`
InvokeWrapped ==
    /\ wcall.pc = "inject"
    /\ wcall.idx > Len(wcall.blueprint)
    /\ wcall' = [wcall EXCEPT !.pc = "called", !.passed = Kwargs(wcall)]
    /\ UNCHANGED <<provVars, dbg, vcall, cache>>

\* The call is over: the wrapped callable returned, or the error reached the caller.
WrapperReturn ==
    /\ wcall.pc \in {"called", "raised"}
    /\ wcall' = IdleWrapper
    /\ UNCHANGED <<provVars, dbg, vcall, cache>>

\* No debug tree is being built.
IdleDebug == [pc |-> "idle"]

InitWrapper ==
    /\ ProviderInit
    /\ wcall = IdleWrapper
    /\ dbg = IdleDebug
    /\ vcall = IdleScopeCall
    /\ cache = IdleCache

NextWrapper ==
    \/ /\ wcall.pc = "idle"
       /\ \E bp \in Blueprints, skip_self \in BOOLEAN :
          \E nargs \in 0..(Len(bp) - InjectionOffset(skip_self)) :
             \E names \in SUBSET ((InjectionOffset(skip_self) + nargs + 1)..Len(bp)) :
                WrapperCall(bp, skip_self, nargs, names)
    \/ \E bp \in Blueprints, wrapped \in WrappedKinds, instance \in Instances :
          Get(bp, wrapped, instance)
    \/ \E instance \in Instances : GetBound(instance)
    \/ /\ wcall.pc = "bound"
       /\ \E nargs \in 0..(Len(wcall.blueprint) - InjectionOffset(wcall.skip_self)) :
             \E names \in SUBSET ((InjectionOffset(wcall.skip_self) + nargs + 1)
                                      ..Len(wcall.blueprint)) :
                CallBound(nargs, names)
    \/ InjectStep
    \/ InvokeWrapped
    \/ WrapperReturn

SpecWrapper == InitWrapper /\ [][NextWrapper]_vars

(***************************************************************************)
(* Claims on the injected wrapper                                          *)
(***************************************************************************)
\* The entry at position i lies past the receiver and the positional arguments,
\* names a dependency, and the caller gave no keyword argument for it.
Selected(c, i) ==
    /\ i > InjectionOffset(c.skip_self) + c.nargs
    /\ c.blueprint[i].dependency # None
    /\ i \notin DOMAIN c.original

\* The entry at position i was resolved and its instance passed by keyword.
Injected(c, i) ==
    /\ i \in c.attempted
    /\ i \in DOMAIN c.passed
    /\ c.passed[i] = ContainerGet(c.blueprint[i].dependency).value

\* The caller's keyword arguments reach the wrapped callable as they were given.
CallerArgumentsKept(c) ==
    /\ c.caller = c.original
    /\ \A k \in DOMAIN c.original : k \in DOMAIN c.passed /\ c.passed[k] = c.original[k]

\* C5 as stated: when the wrapped callable is invoked, an entry has been resolved
\* and passed by keyword if and only if it is past the positional arguments, has
\* a dependency and was not given by keyword.
C5_InjectedIffSelected ==
    wcall.pc = "called" =>
        /\ \A i \in 1..Len(wcall.blueprint) : Injected(wcall, i) <=> Selected(wcall, i)
        /\ CallerArgumentsKept(wcall)

\* C5: resolution is attempted only for entries past the positional arguments
\* that have a dependency and were not given by keyword, and for each of them
\* when the wrapped callable is invoked; of these exactly the ones the container
\* provides are passed by keyword; the caller's arguments are passed unchanged
\* and nothing else is passed.
C5_InjectedIffSelectedAndProvided ==
    /\ \A i \in wcall.attempted : Selected(wcall, i)
    /\ wcall.pc = "called" =>
          /\ \A i \in 1..Len(wcall.blueprint) :
                /\ i \in wcall.attempted <=> Selected(wcall, i)
                /\ Injected(wcall, i) <=>
                      (Selected(wcall, i)
                          /\ ContainerGet(wcall.blueprint[i].dependency).error = "none")
          /\ CallerArgumentsKept(wcall)
          /\ DOMAIN wcall.passed =
                DOMAIN wcall.original
                    \cup {i \in 1..Len(wcall.blueprint) : Injected(wcall, i)}

\* A call where one entry with a dependency was given by keyword and another one
\* was injected.
C5_Witness ==
    /\ wcall.pc = "called"
    /\ \E i \in DOMAIN wcall.original : wcall.blueprint[i].dependency # None
    /\ \E i \in 1..Len(wcall.blueprint) : Injected(wcall, i)

\* The entry at position i was looked up and the container did not find it.
NotFound(c, i) ==
    /\ i \in c.attempted
    /\ ContainerGet(c.blueprint[i].dependency).error = "DependencyNotFoundError"

C6_State ==
    /\ \A i \in 1..Len(wcall.blueprint) :
          (NotFound(wcall, i) /\ wcall.blueprint[i].required) =>
              /\ wcall.pc = "raised"
              /\ wcall.error = "DependencyNotFoundError"
              /\ wcall.idx = i
    /\ wcall.pc = "raised" =>
          /\ wcall.idx \in wcall.attempted
          /\ ~(NotFound(wcall, wcall.idx) /\ ~wcall.blueprint[wcall.idx].required)
    /\ wcall.pc = "called" =>
          \A i \in 1..Len(wcall.blueprint) :
              NotFound(wcall, i) => i \notin DOMAIN wcall.passed

C6_Step ==
    /\ wcall.pc = "raised" => wcall'.pc = "idle"
    /\ (wcall.pc = "inject" /\ wcall.idx <= Len(wcall.blueprint)
            /\ NotFound(wcall', wcall.idx) /\ ~wcall.blueprint[wcall.idx].required) =>
          /\ wcall'.pc = "inject"
          /\ wcall'.idx = wcall.idx + 1

\* C6: a required entry the container does not find ends the call with
\* DependencyNotFoundError at that entry and the wrapped callable is not invoked
\* afterwards; an optional entry the container does not find is left out of the
\* keyword arguments, the loop goes on with the next entry, and no call ends with
\* an error at an optional entry that was not found.
C6_RequiredRaisesOptionalSkipped == []C6_State /\ [][C6_Step]_vars

\* An optional entry was not found and skipped, then a required one was not found
\* and ended the call.
C6_Witness ==
    /\ wcall.pc = "raised"
    /\ NotFound(wcall, wcall.idx)
    /\ \E i \in wcall.attempted : NotFound(wcall, i) /\ ~wcall.blueprint[i].required

\* The entry at position i was looked up and the container raised another error
\* than DependencyNotFoundError.
OtherError(c, i) ==
    /\ i \in c.attempted
    /\ ContainerGet(c.blueprint[i].dependency).error
          \notin {"none", "DependencyNotFoundError"}

\* An error other than DependencyNotFoundError ends the call at the entry where it
\* was raised, with that error, required or not; the wrapped callable is invoked
\* only if no such error was raised, and a call ended by an error stays ended.
C14_State ==
    /\ \A i \in 1..Len(wcall.blueprint) :
          OtherError(wcall, i) =>
              /\ wcall.pc = "raised"
              /\ wcall.error = ContainerGet(wcall.blueprint[i].dependency).error
              /\ wcall.idx = i
              /\ wcall.passed = NoKwargs
    /\ wcall.pc = "called" =>
          \A i \in wcall.attempted :
              ContainerGet(wcall.blueprint[i].dependency).error
                  \in {"none", "DependencyNotFoundError"}

C14_Step ==
    (wcall.pc = "raised" /\ wcall.error # "DependencyNotFoundError") =>
        wcall'.pc \notin {"inject", "called"}

\* C14: DependencyNotFoundError is the only error the injection recovers from: any
\* other error raised while a dependency is resolved ends the call with that very
\* error, also for an optional parameter, and the wrapped callable is not invoked.
C14_OnlyNotFoundRecovered == []C14_State /\ [][C14_Step]_vars

\* The call ended with DependencyCycleError at an optional entry.
C14_Witness ==
    /\ wcall.pc = "raised"
    /\ wcall.error = "DependencyCycleError"
    /\ ~wcall.blueprint[wcall.idx].required
    /\ wcall.idx \in wcall.attempted

\* The positions whose instance was stored in the keyword arguments so far.
Stored(c) ==
    {i \in c.attempted : ContainerGet(c.blueprint[i].dependency).error = "none"}

\* C15: the mapping received from the caller is never changed, whether values are
\* injected, injection is skipped or resolution raises; the injected values go to
\* a copy made when the first value is injected, which holds the caller's
\* arguments and the injected values; as long as nothing is injected no copy is
\* made and the mapping received is the one passed on.
C15_CopyOnWrite ==
    wcall.pc # "idle" =>
        /\ wcall.caller = wcall.original
        /\ wcall.dirty <=> Stored(wcall) # {}
        /\ wcall.ref = (IF Stored(wcall) = {} THEN "caller" ELSE "copy")
        /\ Stored(wcall) = {} => wcall.copy = NoKwargs
        /\ Stored(wcall) # {} =>
              /\ DOMAIN wcall.copy = DOMAIN wcall.original \cup Stored(wcall)
              /\ \A k \in DOMAIN wcall.original : wcall.copy[k] = wcall.original[k]
        /\ wcall.pc = "called" =>
              wcall.passed = (IF Stored(wcall) = {} THEN wcall.original ELSE wcall.copy)

\* A call with a keyword argument of the caller where a value was injected for
\* another parameter: the wrapped callable received the copy.
C15_Witness ==
    /\ wcall.pc = "called"
    /\ wcall.original # NoKwargs
    /\ Stored(wcall) # {}
    /\ wcall.caller = wcall.original
    /\ wcall.passed = wcall.copy

\* The wrapper in hand was obtained by binding to an instance, or wraps a
\* classmethod bound to its class.
BoundToReceiver(c) ==
    \/ (c.wrapped = "function" /\ c.instance # None)
    \/ c.wrapped = "classmethod"

\* The wrapper in hand wraps a staticmethod, or a plain function accessed through
\* the class.
NoReceiver(c) ==
    \/ c.wrapped = "staticmethod"
    \/ (c.wrapped = "function" /\ c.instance = None)

C16_State ==
    wcall.wrapped \in WrappedKinds =>
        /\ BoundToReceiver(wcall) =>
              /\ wcall.skip_self
              /\ 1 \notin wcall.attempted
              /\ wcall.pc # "bound" =>
                    /\ wcall.offset = wcall.nargs + 1
                    /\ \A i \in wcall.attempted : i > wcall.nargs + 1
        /\ NoReceiver(wcall) =>
              /\ ~wcall.skip_self
              /\ wcall.pc # "bound" =>
                    /\ wcall.offset = wcall.nargs
                    /\ \A i \in wcall.attempted : i > wcall.nargs

C16_Step ==
    (wcall.pc = "bound" /\ wcall'.pc = "bound") =>
        /\ wcall'.id = wcall.id
        /\ wcall'.skip_self = wcall.skip_self
        /\ wcall'.blueprint = wcall.blueprint
        /\ wcall'.wrapped = wcall.wrapped

\* C16: a wrapper bound to an instance, or wrapping a classmethod, excludes the
\* receiver: called with n positional arguments only the entries after the
\* receiver and those n arguments are injected, never the first; a staticmethod or
\* a function accessed through the class skips nothing; binding a bound wrapper
\* gives that same wrapper.
C16_BoundSkipsReceiver == []C16_State /\ [][C16_Step]_vars

\* A classmethod accessed through the class, bound a second time and called with
\* no positional argument: the entry after the receiver was injected.
C16_Witness ==
    /\ wcall.pc = "called"
    /\ wcall.wrapped = "classmethod"
    /\ wcall.instance = None
    /\ wcall.gets = 1
    /\ wcall.nargs = 0
    /\ 2 \in wcall.attempted

(***************************************************************************)
(* tree_debug_info (specification SpecDebug)                               *)
(***************************************************************************)
\* Number of nodes a tree may grow to; the trees the function finishes on the
\* containers below have no more nodes.
MaxNodes == 20

\* `depth = 1 << 31`, "roughly infinity": the source's 2^31 is one more than the
\* integers of the model reach, so that the largest value that can still be
\* incremented stands for it; no path has that many identifiers either way.
Infinity == 2147483646

DebugDependencies == {"A", "B", "C"}

Origins == {"A"}

Depths == {-1, 0, 1, 2}

Reverse(s) == [i \in 1..Len(s) |-> s[Len(s) + 1 - i]]

DependencyTask(dependency) ==
    [type |-> "DependencyTask", dependency |-> dependency, name |-> "-",
     injections |-> <<>>]

InjectionTask(name, injections) ==
    [type |-> "InjectionTask", dependency |-> "-", name |-> name,
     injections |-> injections]

DependencyTasks(dependencies) ==
    [i \in 1..Len(dependencies) |-> DependencyTask(dependencies[i])]

\* The text of a node: what it displays and about which identifier or callable.
Info(kind, of) == [kind |-> kind, of |-> of]

\* DebugTreeNode.__init__; children holds the positions of the child nodes.
DebugTreeNode(info, scope) == [info |-> info, scope |-> scope, children |-> <<>>]

\* A callable or class listed in DependencyDebug.wired, with its injections (those
\* of __init__ for a class).
Wired(kind, name, injections) == [kind |-> kind, name |-> name, injections |-> injections]

\* The scope container.debug reports: B is built anew each time, C lives in the
\* scope made with world.scopes.new('dummy'), the others are singletons.
DebugScope(dependency) ==
    CASE dependency = "B" -> NoScope
      [] dependency = "C" -> DummyScope
      [] OTHER -> SingletonScope

\* The containers tree_debug_info is run on: which identifiers a provider claims
\* and the dependencies and wired callables container.debug reports for them.
Containers ==
    {[known |-> k,
      dependencies |-> [d \in DebugDependencies |->
                            IF d = "A" THEN a ELSE IF d = "B" THEN b ELSE c],
      wired |-> [d \in DebugDependencies |-> IF d = "B" THEN w ELSE <<>>]] :
        k \in {{"B"}, {"A", "B"}, {"B", "C"}, {"A", "B", "C"}},
        a \in {<<>>, <<"B">>, <<"C">>, <<"B", "C">>, <<"A", "B">>},
        b \in {<<>>, <<"A">>, <<"C">>, <<"C", "A">>, <<"B">>},
        c \in {<<>>, <<"A">>},
        w \in {<<>>, <<Wired("function", "w", <<"C">>)>>,
               <<Wired("function", "w", <<>>)>>,
               <<Wired("class", "W", <<"A">>)>>}}

\* What the origin is besides an identifier: a callable with injections, a class
\* whose wiring names methods (all of them, or an explicit list), or neither.
Wirings ==
    {[kind |-> "none", all |-> FALSE, injections |-> <<>>, methods |-> <<>>],
     [kind |-> "callable", all |-> FALSE, injections |-> <<"B">>, methods |-> <<>>],
     [kind |-> "callable", all |-> FALSE, injections |-> <<"A", "B">>, methods |-> <<>>],
     [kind |-> "class", all |-> TRUE, injections |-> <<>>,
      methods |-> <<InjectionTask("Method: get", <<"A">>),
                    InjectionTask("Method: plain", <<>>)>>],
     [kind |-> "class", all |-> FALSE, injections |-> <<>>,
      methods |-> <<InjectionTask("Method: get", <<"C">>),
                    InjectionTask("Method: plain", <<>>)>>]}

\* container.debug(dependency); not found stands for DependencyNotFoundError.
ContainerDebug(container, dependency) ==
    IF dependency \in container.known
    THEN [found |-> TRUE, info |-> Info("dependency", dependency),
          scope |-> DebugScope(dependency),
          dependencies |-> container.dependencies[dependency],
          wired |-> container.wired[dependency]]
    ELSE [found |-> FALSE, info |-> Info("unknown", dependency), scope |-> SentinelScope,
          dependencies |-> <<>>, wired |-> <<>>]

TaskEntry(parent, parent_dependencies, task) ==
    [parent |-> parent, parent_dependencies |-> parent_dependencies, task |-> task]

\* tasks.append((parent, parent_dependencies, t)) for each t of new_tasks
PushAll(tasks, parent, parent_dependencies, new_tasks) ==
    tasks \o [i \in 1..Len(new_tasks) |->
                 TaskEntry(parent, parent_dependencies, new_tasks[i])]

HasInjections(task) == task.injections # <<>>

\* add_root_injections: the tasks the origin's own injections give.
RootTasks(wiring) ==
    CASE wiring.kind = "class" ->
            IF wiring.all THEN SelectSeq(wiring.methods, HasInjections)
            ELSE wiring.methods
      [] wiring.kind = "callable" -> DependencyTasks(wiring.injections)
      [] OTHER -> <<>>

AddRootInjections(tasks, parent, parent_dependencies, wiring) ==
    PushAll(tasks, parent, parent_dependencies, RootTasks(wiring))

\* `for w in debug.wired`: the tasks of the wired classes and callables.
RECURSIVE WiredTasks(_)
WiredTasks(wired) ==
    IF wired = <<>> THEN <<>>
    ELSE LET w == Head(wired)
         IN (IF w.kind = "class" THEN DependencyTasks(w.injections)
             ELSE <<InjectionTask(w.name, w.injections)>>) \o WiredTasks(Tail(wired))

\* Mutant of IsCyclic: no dependency is taken for an ancestor.
IsCyclicNever(dependency, parent_dependencies) == FALSE

\* `if dependency in parent_dependencies`
IsCyclic(dependency, parent_dependencies) == dependency \in parent_dependencies

\* parent.children.append(node)
AppendChild(nodes, parent, node) ==
    [Append(nodes, node) EXCEPT ![parent].children = Append(@, Len(nodes) + 1)]

\* The model keeps the first MaxNodes nodes of the tree: a node made beyond them is
\* left out, and what it would hold hangs from its parent.  The task loop itself
\* is not bounded.
Attach(nodes, parent, node) ==
    IF Len(nodes) < MaxNodes THEN AppendChild(nodes, parent, node) ELSE nodes

\* The position of the node Attach adds.
Attached(nodes, parent) == IF Len(nodes) < MaxNodes THEN Len(nodes) + 1 ELSE parent

NoOutput == [kind |-> "none", lines |-> <<>>, legend |-> FALSE]

\* tree_debug_info up to the task loop.
TreeDebugInfo(container, origin, wiring, depth) ==
    /\ dbg.pc = "idle"
    /\ dbg' = [pc |-> "work", container |-> container, origin |-> origin,
               wiring |-> wiring,
               depth |-> (IF depth < 0 THEN Infinity ELSE depth) + 1,
               nodes |-> <<DebugTreeNode(Info("origin", origin), SentinelScope)>>,
               root |-> 1, original_root |-> 1,
               tasks |-> <<TaskEntry(1, {}, DependencyTask(origin))>>,
               output |-> NoOutput]
    /\ UNCHANGED <<provVars, wcall, vcall, cache>>

\* `while tasks: parent, parent_dependencies, task = tasks.pop()`
Working == dbg.pc = "work" /\ dbg.tasks # <<>>
Popped == dbg.tasks[Len(dbg.tasks)]
Remaining == SubSeq(dbg.tasks, 1, Len(dbg.tasks) - 1)

\* Mutant of RootNotFound: the origin no provider claims gets an Unknown node as
\* any other identifier does.
RootNotFoundAsUnknown ==
    /\ Working
    /\ Popped.task.type = "DependencyTask"
    /\ ~ContainerDebug(dbg.container, Popped.task.dependency).found
    /\ Popped.task.dependency = dbg.origin
    /\ dbg' = [dbg EXCEPT
                 !.tasks = Remaining,
                 !.nodes = Attach(dbg.nodes, Popped.parent,
                              DebugTreeNode(Info("unknown", Popped.task.dependency),
                                            SentinelScope))]
    /\ UNCHANGED <<provVars, wcall, vcall, cache>>

\* container.debug raised DependencyNotFoundError for the origin.
RootNotFound ==
    /\ Working
    /\ Popped.task.type = "DependencyTask"
    /\ ~ContainerDebug(dbg.container, Popped.task.dependency).found
    /\ Popped.task.dependency = dbg.origin
    /\ dbg' = [dbg EXCEPT !.tasks = AddRootInjections(Remaining, Popped.parent,
                                        Popped.parent_dependencies, dbg.wiring)]
    /\ UNCHANGED <<provVars, wcall, vcall, cache>>

\* container.debug raised DependencyNotFoundError for another identifier.
UnknownLeaf ==
    /\ Working
    /\ Popped.task.type = "DependencyTask"
    /\ ~ContainerDebug(dbg.container, Popped.task.dependency).found
    /\ Popped.task.dependency # dbg.origin
    /\ dbg' = [dbg EXCEPT
                 !.tasks = Remaining,
                 !.nodes = Attach(dbg.nodes, Popped.parent,
                              DebugTreeNode(Info("unknown", Popped.task.dependency),
                                            SentinelScope))]
    /\ UNCHANGED <<provVars, wcall, vcall, cache>>

CyclicLeaf ==
    /\ Working
    /\ Popped.task.type = "DependencyTask"
    /\ ContainerDebug(dbg.container, Popped.task.dependency).found
    /\ IsCyclic(Popped.task.dependency, Popped.parent_dependencies)
    /\ dbg' = [dbg EXCEPT
                 !.tasks = Remaining,
                 !.nodes = Attach(dbg.nodes, Popped.parent,
                              DebugTreeNode(Info("cyclic", Popped.task.dependency),
                                            SentinelScope))]
    /\ UNCHANGED <<provVars, wcall, vcall, cache>>

\* The node of a dependency, and the tasks of what it depends on.
DependencyNode ==
    /\ Working
    /\ Popped.task.type = "DependencyTask"
    /\ ContainerDebug(dbg.container, Popped.task.dependency).found
    /\ ~IsCyclic(Popped.task.dependency, Popped.parent_dependencies)
    /\ LET dependency == Popped.task.dependency
           debug == ContainerDebug(dbg.container, dependency)
           tree_node == Attached(dbg.nodes, Popped.parent)
           parent_dependencies == Popped.parent_dependencies \cup {dependency}
           with_root == IF dependency = dbg.origin
                        THEN AddRootInjections(Remaining, tree_node,
                                               parent_dependencies, dbg.wiring)
                        ELSE Remaining
       IN dbg' = [dbg EXCEPT
                    !.nodes = Attach(dbg.nodes, Popped.parent,
                                          DebugTreeNode(debug.info, debug.scope)),
                    !.root = IF dependency = dbg.origin THEN tree_node ELSE dbg.root,
                    !.tasks = IF Cardinality(parent_dependencies) < dbg.depth
                              THEN PushAll(with_root, tree_node, parent_dependencies,
                                           DependencyTasks(debug.dependencies)
                                               \o WiredTasks(debug.wired))
                              ELSE with_root]
    /\ UNCHANGED <<provVars, wcall, vcall, cache>>

\* `elif isinstance(task, InjectionTask) and task.injections`
InjectionNode ==
    /\ Working
    /\ Popped.task.type = "InjectionTask"
    /\ Popped.task.injections # <<>>
    /\ dbg' = [dbg EXCEPT
                 !.nodes = Attach(dbg.nodes, Popped.parent,
                              DebugTreeNode(Info("injection", Popped.task.name),
                                            SentinelScope)),
                 !.tasks = PushAll(Remaining, Attached(dbg.nodes, Popped.parent),
                                   Popped.parent_dependencies,
                                   DependencyTasks(Popped.task.injections))]
    /\ UNCHANGED <<provVars, wcall, vcall, cache>>

\* An InjectionTask without injections is dropped.
InjectionSkipped ==
    /\ Working
    /\ Popped.task.type = "InjectionTask"
    /\ Popped.task.injections = <<>>
    /\ dbg' = [dbg EXCEPT !.tasks = Remaining]
    /\ UNCHANGED <<provVars, wcall, vcall, cache>>

\* Scope.name; a named scope is written as its name.
ScopeName(scope) == scope

\* The character U+2205 of "<∅> ", the marker of scope None.
NoScopeSign == "U+2205"

\* Mutant of ScopeRepr: scope None is written as a singleton is.
ScopeReprNoneAsSingleton(scope, empty) ==
    IF scope \in {NoScope, SingletonScope, SentinelScope} THEN <<empty>>
    ELSE <<"<", ScopeName(scope), "> ">>

\* scope_repr: the pieces the returned string is made of.
ScopeRepr(scope, empty) ==
    IF scope = NoScope THEN <<"<", NoScopeSign, "> ">>
    ELSE IF scope \in {SingletonScope, SentinelScope} THEN <<empty>>
    ELSE <<"<", ScopeName(scope), "> ">>

Line(prefix, branch, scope, info) ==
    [prefix |-> prefix, branch |-> branch, scope |-> scope, info |-> info]

\* `("", i == 0, child) for i, child in enumerate(children[::-1])`: the children
\* from the last one to the first one, the last one marked.
RenderEntries(prefix, children) ==
    [i \in 1..Len(children) |->
        [prefix |-> prefix, last |-> i = 1, node |-> Reverse(children)[i]]]

\* `while nodes`: the lines of the nodes below the root; a prefix is the sequence
\* of the `last` marks of the ancestors.
RECURSIVE RenderNodes(_, _, _)
RenderNodes(nodes, stack, output) ==
    IF stack = <<>> THEN output
    ELSE LET entry == stack[Len(stack)]
             node == nodes[entry.node]
             new_prefix == Append(entry.prefix, entry.last)
         IN RenderNodes(nodes,
                SubSeq(stack, 1, Len(stack) - 1)
                    \o RenderEntries(new_prefix, node.children),
                Append(output,
                       Line(entry.prefix, IF entry.last THEN "last" ELSE "middle",
                            ScopeRepr(node.scope, " "), node.info)))

\* Mutant of RenderTree: the message is returned for every root without child.
RenderTreeMessageIfChildless(nodes, root, original_root) ==
    IF nodes[root].children = <<>>
    THEN [kind |-> "message", lines |-> <<>>, legend |-> FALSE]
    ELSE [kind |-> "tree",
          lines |-> RenderNodes(nodes, RenderEntries(<<>>, nodes[root].children),
                        <<Line(<<>>, "root", ScopeRepr(nodes[root].scope, ""),
                               nodes[root].info)>>),
          legend |-> TRUE]

\* What tree_debug_info returns once the tasks are done.
RenderTree(nodes, root, original_root) ==
    IF nodes[root].children = <<>> /\ original_root = root
    THEN [kind |-> "message", lines |-> <<>>, legend |-> FALSE]
    ELSE [kind |-> "tree",
          lines |-> RenderNodes(nodes, RenderEntries(<<>>, nodes[root].children),
                        <<Line(<<>>, "root", ScopeRepr(nodes[root].scope, ""),
                               nodes[root].info)>>),
          legend |-> TRUE]

Render ==
    /\ dbg.pc = "work"
    /\ dbg.tasks = <<>>
    /\ dbg' = [dbg EXCEPT !.pc = "done",
                          !.output = RenderTree(dbg.nodes, dbg.root, dbg.original_root)]
    /\ UNCHANGED <<provVars, wcall, vcall, cache>>

DebugReturn ==
    /\ dbg.pc = "done"
    /\ dbg' = IdleDebug
    /\ UNCHANGED <<provVars, wcall, vcall, cache>>

InitDebug ==
    /\ ProviderInit
    /\ wcall = IdleWrapper
    /\ dbg = IdleDebug
    /\ vcall = IdleScopeCall
    /\ cache = IdleCache

NextDebug ==
    \/ /\ dbg.pc = "idle"
       /\ \E container \in Containers, origin \in Origins, wiring \in Wirings,
             depth \in Depths : TreeDebugInfo(container, origin, wiring, depth)
    \/ RootNotFound
    \/ UnknownLeaf
    \/ CyclicLeaf
    \/ DependencyNode
    \/ InjectionNode
    \/ InjectionSkipped
    \/ Render
    \/ DebugReturn

SpecDebug == InitDebug /\ [][NextDebug]_vars

\* One pass of the loop `while tasks`.
LoopStep ==
    \/ RootNotFound
    \/ UnknownLeaf
    \/ CyclicLeaf
    \/ DependencyNode
    \/ InjectionNode
    \/ InjectionSkipped

\* One step of a call of tree_debug_info.
DebugStep == LoopStep \/ Render

\* The containers of the calls followed to their end: A is claimed or not, C is
\* not, and B depends on B, or on C and A, or on nothing.
CallContainers ==
    {c \in Containers :
        /\ c.known \in {{"B"}, {"A", "B"}}
        /\ c.dependencies["A"] \in {<<>>, <<"B", "C">>}
        /\ c.dependencies["B"] \in {<<>>, <<"C", "A">>, <<"B">>}
        /\ c.dependencies["C"] = <<>>
        /\ c.wired["B"] \in {<<>>, <<Wired("class", "W", <<"A">>)>>}}

\* One call of tree_debug_info, from its arguments to what it returns.
NextDebugCall ==
    \/ /\ dbg.pc = "idle"
       /\ \E container \in CallContainers, origin \in Origins, wiring \in Wirings,
             depth \in Depths : TreeDebugInfo(container, origin, wiring, depth)
    \/ DebugStep

\* tree_debug_info is sequential code: as long as there is a task, the loop takes
\* its next pass.
SpecDebugFair == InitDebug /\ [][NextDebugCall]_vars /\ WF_vars(LoopStep)

(***************************************************************************)
(* Claims on the debug tree                                                *)
(***************************************************************************)
NodeIds == IF dbg.pc = "idle" THEN {} ELSE 1..Len(dbg.nodes)

IsChild(n, m) == \E i \in 1..Len(dbg.nodes[m].children) : dbg.nodes[m].children[i] = n

\* The nodes on the path from the first node of the tree down to the parent of n.
RECURSIVE Ancestors(_)
Ancestors(n) ==
    IF \E m \in NodeIds : IsChild(n, m)
    THEN LET parent == CHOOSE m \in NodeIds : IsChild(n, m)
         IN {parent} \cup Ancestors(parent)
    ELSE {}

\* The identifiers displayed in full on the path above n.
AncestorDependencies(n) ==
    {dbg.nodes[m].info.of : m \in {a \in Ancestors(n) : dbg.nodes[a].info.kind = "dependency"}}

\* What the children of the node of a dependency are about, from the first child
\* to the last, when its depth allows for children: the tasks are taken in the
\* reverse order of their insertion and those without injections give no node.
ChildrenOf(container, dependency) ==
    LET tasks == SelectSeq(WiredTasks(container.wired[dependency]),
                           LAMBDA t : t.type = "DependencyTask" \/ HasInjections(t))
        names == [i \in 1..Len(tasks) |->
                     IF tasks[i].type = "DependencyTask" THEN tasks[i].dependency
                     ELSE tasks[i].name]
    IN Reverse(container.dependencies[dependency] \o names)

\* n displays an identifier in full, is not the origin and is less than `depth`
\* identifiers deep.
FullNode(n) ==
    /\ dbg.nodes[n].info.kind = "dependency"
    /\ dbg.nodes[n].info.of # dbg.origin
    /\ Cardinality(AncestorDependencies(n)) + 1 < dbg.depth

\* tree_debug_info(container, "A") for the graph A -> B -> A.
CycleOfTwo ==
    /\ dbg.pc = "done"
    /\ dbg.origin = "A"
    /\ {"A", "B"} \subseteq dbg.container.known
    /\ dbg.container.dependencies["A"] = <<"B">>
    /\ dbg.container.dependencies["B"] = <<"A">>
    /\ dbg.container.wired["B"] = <<>>
    /\ dbg.wiring.kind = "none"
    /\ dbg.depth >= 3

Limited == dbg.pc # "idle" /\ dbg.depth <= Infinity

\* C17 as stated: with a maximum depth d >= 0 no dependency node has more than d
\* dependency ancestors and depth 0 renders the root alone, whatever the root; a
\* negative depth cuts nothing.
C17_DepthLimit ==
    /\ Limited =>
          /\ \A n \in NodeIds :
                dbg.nodes[n].info.kind = "dependency" =>
                    Cardinality(AncestorDependencies(n)) <= dbg.depth - 1
          /\ (dbg.pc = "done" /\ dbg.depth - 1 = 0) =>
                /\ dbg.nodes[dbg.root].children = <<>>
                /\ Len(dbg.output.lines) <= 1
    /\ (dbg.pc = "done" /\ ~Limited /\ dbg.origin \in dbg.container.known) =>
          \A n \in NodeIds :
              (dbg.nodes[n].info.kind = "dependency" /\ dbg.nodes[n].info.of # dbg.origin)
                  => Len(dbg.nodes[n].children)
                        = Len(ChildrenOf(dbg.container, dbg.nodes[n].info.of))

\* The root is claimed by no provider and received no child.
BareRoot ==
    /\ dbg.origin \notin dbg.container.known
    /\ \A n \in NodeIds : ~IsChild(n, 1)

\* C20: tree_debug_info returns the one-line message 'is neither a dependency nor
\* is anything injected', without legend, exactly when no provider claims the root
\* and the root received no child; otherwise it returns the tree, whose first line
\* is the root's, followed by the legend.
C20_MessageIffBareRoot ==
    dbg.pc = "done" =>
        /\ dbg.output.kind \in {"message", "tree"}
        /\ dbg.output.kind = "message" <=> BareRoot
        /\ dbg.output.kind = "message" =>
              /\ dbg.output.lines = <<>>
              /\ ~dbg.output.legend
        /\ dbg.output.kind = "tree" =>
              /\ dbg.output.legend
              /\ Len(dbg.output.lines) >= 1
              /\ dbg.output.lines[1].branch = "root"
              /\ dbg.output.lines[1].info.of = dbg.origin

\* The root is an injected function no provider claims: the tree of its injections
\* is returned with the legend.
C20_Witness ==
    /\ dbg.pc = "done"
    /\ dbg.origin \notin dbg.container.known
    /\ dbg.wiring.kind = "callable"
    /\ dbg.output.kind = "tree"
    /\ dbg.output.legend
    /\ Len(dbg.output.lines) >= 2

\* What the tasks of add_root_injections put under their parent: an identifier for
\* a DependencyTask, the method's name for an InjectionTask that has injections.
RECURSIVE RootChildren(_)
RootChildren(tasks) ==
    IF tasks = <<>> THEN <<>>
    ELSE LET t == Head(tasks)
         IN (IF t.type = "DependencyTask" THEN <<t.dependency>>
             ELSE IF t.injections # <<>> THEN <<t.name>> ELSE <<>>)
                \o RootChildren(Tail(tasks))

\* Unknown nodes are leaves about identifiers other than the root that no provider
\* claims; a root no provider claims stays the first node and the first line, and
\* its children are what its own injections give.
C29_UnknownNodes ==
    /\ \A n \in NodeIds :
          dbg.nodes[n].info.kind = "unknown" =>
              /\ dbg.nodes[n].children = <<>>
              /\ n # dbg.root
              /\ dbg.nodes[n].info.of # dbg.origin
              /\ dbg.nodes[n].info.of \notin dbg.container.known
    /\ (dbg.pc # "idle" /\ dbg.origin \notin dbg.container.known) =>
          /\ dbg.root = 1
          /\ dbg.nodes[1].info = Info("origin", dbg.origin)
    /\ (dbg.pc = "done" /\ dbg.origin \notin dbg.container.known
            /\ Len(dbg.nodes) < MaxNodes) =>
          /\ [i \in 1..Len(dbg.nodes[1].children) |->
                 dbg.nodes[dbg.nodes[1].children[i]].info.of]
               = RootChildren(RootTasks(dbg.wiring))
          /\ dbg.output.kind = "tree" => dbg.output.lines[1].info = Info("origin", dbg.origin)

\* The step that takes an identifier no provider claims from the task stack.
C29_NotFoundStep ==
    (/\ Working
     /\ Popped.task.type = "DependencyTask"
     /\ Popped.task.dependency \notin dbg.container.known) =>
        IF Popped.task.dependency = dbg.origin
        THEN /\ dbg'.nodes = dbg.nodes
             /\ dbg'.tasks = PushAll(Remaining, Popped.parent, Popped.parent_dependencies,
                                     RootTasks(dbg.wiring))
        ELSE /\ dbg'.tasks = Remaining
             /\ dbg'.nodes = Attach(dbg.nodes, Popped.parent,
                                 DebugTreeNode(Info("unknown", Popped.task.dependency),
                                               SentinelScope))

\* C29: an identifier other than the root that no provider claims is rendered as an
\* Unknown leaf without children; a root that no provider claims is not rendered as
\* Unknown: the dependencies its injection wrapper declares, or its wired methods
\* when it is a class, are attached directly under the root.
C29_UnknownLeafOnlyBelowRoot == []C29_UnknownNodes /\ [][C29_NotFoundStep]_vars

\* The tree of a root no provider claims is done: its injection B is under the
\* root, and the identifier C nobody claims is an Unknown leaf below B.
C29_Witness ==
    /\ dbg.pc = "done"
    /\ dbg.origin \notin dbg.container.known
    /\ dbg.wiring.kind = "callable"
    /\ Len(dbg.nodes) < MaxNodes
    /\ \E n \in NodeIds :
          /\ IsChild(n, 1)
          /\ dbg.nodes[n].info = Info("dependency", "B")
          /\ \E m \in NodeIds :
                /\ IsChild(m, n)
                /\ dbg.nodes[m].info = Info("unknown", "C")

\* The scope of the node a line is about: container.debug's for a dependency, the
\* sentinel DebugTreeNode defaults to for every other node.
NodeScope(info) ==
    IF info.kind = "dependency" THEN DebugScope(info.of) ELSE SentinelScope

\* scope_repr's `empty`: nothing before the root's text, one blank elsewhere.
Blank(prefix) == prefix \in {<<"">>, <<" ">>}

\* The marker the scope of a node gives: none, <name> or <U+2205>.
ScopeMarker(prefix, scope) ==
    CASE scope \in {SingletonScope, SentinelScope} -> Blank(prefix)
      [] scope = NoScope -> prefix = <<"<", NoScopeSign, "> ">>
      [] OTHER -> prefix = <<"<", scope, "> ">>

\* C30: the scope prefix of a rendered node depends on its scope only: the
\* singleton scope and the sentinel give no marker, a named scope gives <name> and
\* scope None gives <U+2205>; two nodes of the same scope get the same marker.
C30_ScopePrefix ==
    /\ \A n \in NodeIds : dbg.nodes[n].scope = NodeScope(dbg.nodes[n].info)
    /\ (dbg.pc = "done" /\ dbg.output.kind = "tree") =>
          LET lines == dbg.output.lines
          IN /\ \A i \in 1..Len(lines) :
                   ScopeMarker(lines[i].scope, NodeScope(lines[i].info))
             /\ \A i, j \in 1..Len(lines) :
                   NodeScope(lines[i].info) = NodeScope(lines[j].info) =>
                       \/ lines[i].scope = lines[j].scope
                       \/ Blank(lines[i].scope) /\ Blank(lines[j].scope)

\* A rendered tree with a singleton root, a node of scope None, a node of the
\* named scope and a node that keeps the sentinel.
C30_Witness ==
    /\ dbg.pc = "done"
    /\ dbg.output.kind = "tree"
    /\ LET lines == dbg.output.lines
       IN /\ lines[1].scope = <<"">>
          /\ lines[1].info = Info("dependency", "A")
          /\ \E i \in 2..Len(lines) :
                /\ lines[i].info = Info("dependency", "B")
                /\ lines[i].scope = <<"<", NoScopeSign, "> ">>
          /\ \E i \in 2..Len(lines) :
                /\ lines[i].info = Info("dependency", "C")
                /\ lines[i].scope = <<"<", DummyScope, "> ">>
          /\ \E i \in 2..Len(lines) :
                /\ lines[i].info.kind \in {"cyclic", "unknown", "injection"}
                /\ lines[i].scope = <<" ">>

\* The scope and default arguments are each a Scope or None.
WellTyped(c) ==
    /\ c.scope = NoScope \/ IsScope(c.scope)
    /\ c.default = NoScope \/ IsScope(c.default)

\* What the four cases of validated_scope give for the arguments of the call.
ScopeCases(c) ==
    /\ (IsBool(c.singleton) /\ c.scope = SentinelScope) =>
          c.result = Returned(IF c.singleton = "True" THEN SingletonScope ELSE NoScope)
    /\ (IsBool(c.singleton) /\ c.scope # SentinelScope) =>
          c.result = Raised("TypeError")
    /\ (~IsBool(c.singleton) /\ c.singleton # None) =>
          c.result = Raised("TypeError")
    /\ c.singleton = None =>
          c.result = Returned(IF c.scope = SentinelScope THEN c.default ELSE c.scope)

\* C21 as stated: for all arguments, a boolean singleton with the sentinel scope
\* gives the singleton scope or None, a boolean singleton with another scope
\* raises TypeError, a singleton neither boolean nor None raises TypeError, and
\* singleton None gives default for the sentinel scope and scope otherwise.
C21_ValidatedScopeCases == vcall.pc = "done" => ScopeCases(vcall)

\* C21: the four cases hold when scope and default are each a Scope or None; a
\* scope or a default that is neither raises TypeError whatever singleton is.
C21_ValidatedScopeCasesWellTyped ==
    vcall.pc = "done" =>
        /\ WellTyped(vcall) => ScopeCases(vcall)
        /\ ~WellTyped(vcall) => vcall.result = Raised("TypeError")

\* A boolean singleton was given with scope None: TypeError.
C21_Witness ==
    /\ vcall.pc = "done"
    /\ vcall.singleton = "False"
    /\ vcall.scope = NoScope
    /\ vcall.default = DummyScope
    /\ vcall.result = Raised("TypeError")

\* The dependencies cached under the singleton scope, and under a named scope.
SingletonDependencies == {d \in CacheDependencies : DependencyScope(d) = SingletonScope}

NamedDependencies ==
    {d \in CacheDependencies : DependencyScope(d) \in CacheScopes \ {SingletonScope}}

\* C22: once a dependency of the singleton scope was provided, every later provide
\* returns that same instance, whatever resets of the other scopes and whatever
\* resolutions of other dependencies come in between; the singleton scope itself
\* is never reset.
C22_SingletonIdentical ==
    [][/\ \A d \in SingletonDependencies :
             cache.returned[d] # NoInstance => cache'.returned[d] = cache.returned[d]
       /\ cache'.generation[SingletonScope] = cache.generation[SingletonScope]]_vars

\* The singleton was returned from the cache after the other scopes were reset and
\* the other dependencies were built anew.
C22_Witness ==
    /\ cache.returned["service"] = 1
    /\ cache.op = "provide"
    /\ cache.made >= 4
    /\ cache.generation[RequestScope] > 0
    /\ cache.generation[SessionScope] > 0
    /\ cache.returned["request_scoped"] > 1
    /\ ~cache.stale["request_scoped"]

\* C23: the provide call that follows the reset of the scope of a dependency
\* returns an instance built by that call, identical to none returned before;
\* provide calls with no reset of that scope in between return the same instance.
C23_ResetGivesNewInstance ==
    [][\A d \in NamedDependencies :
          /\ (cache.stale[d] /\ ~cache'.stale[d]) =>
                /\ cache'.returned[d] # cache.returned[d]
                /\ cache'.returned[d] > cache.made
                /\ \A e \in CacheDependencies : cache'.returned[d] # cache.returned[e]
          /\ (~cache.stale[d] /\ ~cache'.stale[d] /\ cache.returned[d] # NoInstance) =>
                cache'.returned[d] = cache.returned[d]]_vars

\* A dependency of a named scope was provided, its scope reset, and the dependency
\* provided again twice: the instance is the second one built for it.
C23_Witness ==
    /\ cache.generation[RequestScope] = 1
    /\ cache.entries["request_scoped"].generation = 1
    /\ cache.returned["request_scoped"] = 2
    /\ cache.made = 2
    /\ ~cache.stale["request_scoped"]
    /\ cache.op = "provide"

\* C24 as stated: in every call of tree_debug_info the task stack eventually
\* empties, whatever the container, the root, its injections and the depth.
C24_Terminates ==
    (dbg.pc = "work") ~> ((dbg.pc = "work" /\ dbg.tasks = <<>>) \/ dbg.pc = "done")

Init ==
    /\ ProviderInit
    /\ wcall = IdleWrapper
    /\ dbg = IdleDebug
    /\ vcall = IdleScopeCall
    /\ cache = IdleCache

Next ==
    \/ \E keep \in BOOLEAN : Clone("provider", "clone", keep)
    \/ \E p \in ProviderIds, t \in ImplicitTables : RegisterImplicits(p, t)
    \/ \E p \in ProviderIds, i \in Interfaces, r \in Resolvers, b \in BOOLEAN :
          RegisterImplementation(p, i, r, b)
    \/ \E p \in ProviderIds, d \in LiveIdentifiers : MaybeProvide(p, d)
    \/ \E p \in ProviderIds, d \in LiveIdentifiers : MaybeDebug(p, d)
    \/ \E r \in Resolvers, t \in {"A", "B", "C", "raise"} : SetChoice(r, t)

Spec == Init /\ [][Next]_vars

SpecFreeze == Init /\ [][NextFreeze]_vars

InitScope ==
    /\ ProviderInit
    /\ wcall = IdleWrapper
    /\ dbg = IdleDebug
    /\ cache = IdleCache
    /\ vcall \in {ScopeCallArguments(scope, singleton, default) :
                     scope \in ScopeArguments, singleton \in SingletonArguments,
                     default \in ScopeArguments}

NextScope ==
    \/ ValidatedScopeCall
    \/ ValidatedScopeReturn

SpecScope == InitScope /\ [][NextScope]_vars

NextCache ==
    \/ \E d \in CacheDependencies : CacheProvide(d)
    \/ \E scope \in CacheScopes : CacheReset(scope)

SpecCache == Init /\ [][NextCache]_vars

====
